---------------------------- MODULE Spec2Model ----------------------------
(***************************************************************************)
(* ChatProtoGol: link-state routed, reliable datagram overlay.             *)
(*                                                                         *)
(* The module models the outgoing packet-number tracker with its           *)
(* congestion window (sequencing/out.go), the one-shot ACK waiter          *)
(* (util/observer/observable.go), the incoming duplicate tracker           *)
(* (sequencing/in.go), the router (routing/*.go) and the cleanup of        *)
(* unreachable hosts (connection.ClearUnreachableHosts).                   *)
(*                                                                         *)
(* Go maps are functions whose DOMAIN is the key set; reading a missing    *)
(* key yields the zero value (Get).                                        *)
(***************************************************************************)
EXTENDS Integers, Sequences, FiniteSets, TLC

VARIABLES
    \* ---- sequencing.OutgoingPktNumHandler
    initialCwnd,                    \* the window the handler was constructed with
    packetNumbers,                  \* addr -> next packet number to hand out
    openAcks,                       \* addr -> (pktNum -> [retries, timer])
    highestAckedContiguousPktNum,   \* addr -> int64
    cwnd,                           \* addr -> int64
    ssthresh,                       \* addr -> int64
    cAvoidanceAcc,                  \* addr -> int64
    lastCongestionEventTime,        \* addr -> "recent" | "elapsed"
    hung,                           \* a handler loops forever holding h.mu
    \* ---- environment of the tracker
    built,                          \* addr -> packet numbers built, not yet registered
    callbacks,                      \* addr -> (pktNum -> fired timer callbacks waiting for h.mu)
    observed,                       \* what the step just taken delivered to the callers waiting on
                                    \* the channels of AddOpenAck: {[addr, pktNum, notified, got]}
    expiries,                       \* addr -> (pktNum -> timeouts handled for the open ack)
    ret,                            \* error of the last AddOpenAck
    \* ---- routing.Router
    lsdb,                           \* addr -> [SeqNum, Neighbors]
    neighborTable,                  \* addr -> [NextHop]
    routingTable,                   \* addr -> AddrPort of the next hop
    routerRet,                      \* what the router operation just applied returned
    \* ---- sequencing.IncomingPktNumHandler
    highestPktNum,                  \* peer -> highest contiguous packet number received
    futurePktNums,                  \* peer -> packet numbers received beyond it
    arrived,                        \* peer -> packet numbers received within the window since
                                    \* the state of the peer was last cleared
    inRet,                          \* what the last IsDuplicatePacket returned
    \* ---- sequencing.blockerManager, reconstruction
    blocked,                        \* the SequenceBlockers in the blocked state
    fileReconstructors,             \* the keys of reconstruction.fileReconstructors
    msgReconstructors,              \* the keys of reconstruction.msgReconstructors
    cleared,                        \* what the ClearUnreachableHosts just run removed: {<<kind, addr>>}
    \* ---- connection: callers inside SendReliableRoutedPacket
    sleeping,                       \* {<<addr, pktNum>>}: callers in time.Sleep(CWND_FULL_RETRY_DELAY)
    sendRet,                        \* what the SendReliableRoutedPacket just returned gave its caller
    \* ---- handler: LSA packets handled by concurrent goroutines
    checked,                        \* the handleLSA goroutines between their GetLSA test and
                                    \* their UpdateLSA, each with the LSA it carries
    applied,                        \* the goroutine whose UpdateLSA ran last, and whether the
                                    \* stored LSA was not older than its own by then
    \* ---- cmd: the streams of chunks being sent
    streams,                        \* the sendMsgChunks/sendFileChunks goroutines running
    \* ---- sock, handler: the datagrams on their way to the packet handlers
    received,                       \* datagrams the read loop of the socket has read
    subscriber,                     \* the channel Subscribe returned to ListenToPackets
    waiting,                        \* the datagram ListenToPackets holds while it acquires a slot
    sem,                            \* the datagrams whose goroutine holds a semaphore slot
    dropped,                        \* datagrams that were not handed to a handler
    excess,                         \* datagrams ListenToPackets received while every slot was taken
    \* ---- handler: what parseLSAPayload returned for the LSA packet handled last
    lsaParse,
    \* ---- pkt: the packet SetChecksum and VerifyChecksum work on
    packet,
    checksumSet,                    \* SetChecksum has run on the packet
    verifyRet,                      \* what VerifyChecksum returned last (<<>>: not called)
    \* ---- connection.ClearUnreachableHosts running beside the other goroutines
    clearing,                       \* the ClearUnreachableHosts under way: the hosts it was
                                    \* given and the calls it has still to make
    during,                         \* {<<kind, addr>>}: state of a host under cleanup that the
                                    \* step just taken, of another goroutine, used or created
    \* ---- history of the router
    produced,                       \* the sequence numbers of the local LSAs recalculateLocalLSA
                                    \* has produced, in their order
    \* ---- connection.FloodLSA
    flood,                          \* the FloodLSA a handleLSA has started: what it sends, to
                                    \* whom, and how far it has come
    \* ---- reconstruction: the reconstructors of the registered sources
    bufferedPayloads,               \* addr -> (pktNum -> payload) of the InMemoryReconstructor
    onDisk,                         \* addr -> the fields of the OnDiskReconstructor
    fileHandled,                    \* addr -> packet numbers HandleIncomingFilePacket took since
                                    \* the reconstructor of addr was created
    delivered,                      \* what the handleFinish just run printed
    \* ---- history of the outgoing tracker
    registered,                     \* {<<addr, pktNum>>}: an open ack was registered under the
                                    \* key since addr was last cleared
    acked,                          \* {<<addr, pktNum>>}: the open ack last registered under the
                                    \* key was removed by an ACK, since addr was last cleared
    \* ---- the mutexes of the router, the trackers and the reconstructor
    holds,                          \* task -> the locks it holds, in the order it took them
    task,                           \* task -> where it stands inside the call it is running
    wrote,                          \* the locks held by the task that wrote a datagram to the
                                    \* socket in the step just taken
    \* ---- handler: MSG and FILE packets in the hands of their goroutines
    receiving,                      \* the handleMsg/handleFileTransfer goroutines that have
                                    \* passed IsDuplicatePacket, each with its packet
    ackSent,                        \* {<<srcAddr, pktNum>>}: an ACK was sent for the packet
    \* ---- cmd: the goroutines of the msg and file commands
    loop,                           \* stream id -> where its send loop stands
    \* ---- handler: what handleLSA has flooded
    refloods,                       \* <<owner, seqNum>> -> the FloodLSA calls of handleLSA that
                                    \* found a neighbor to send the LSA to
    \* ---- the CONN handshake
    connecting,                     \* the handleConnect goroutines that have sent the ACK and
                                    \* stand before AddNeighbor
    dialed,                         \* the peers a CONN of the local connect command is in
                                    \* flight to
    connAcked,                      \* the hosts a CONN was acknowledged to since they were last
                                    \* removed from the neighbor table
    \* ---- the local host and its neighbor n2, with n4 behind n2
    peerLsdb,                       \* the LSDB of n2
    peerLinked,                     \* n2 has the local host in its neighbor table
    wire,                           \* the LSA and DD packets of n2 on their way to the local host
    toPeer,                         \* the LSA and DD packets of the local host on their way to n2
    linkUps,                        \* how often the link to n2 has come up
    \* ---- the process
    panicked                        \* an assertion failed

outVars == <<packetNumbers, openAcks, highestAckedContiguousPktNum, cwnd, ssthresh,
             cAvoidanceAcc, lastCongestionEventTime, hung, built, callbacks,
             observed, expiries, ret>>

routerVars == <<lsdb, neighborTable, routingTable, routerRet>>

inVars == <<highestPktNum, futurePktNums, arrived, inRet>>

hostVars == <<blocked, fileReconstructors, msgReconstructors, cleared>>

sendVars == <<sleeping, sendRet>>

\* the variables of the parts a specification of one component leaves alone
ackVars == <<registered, acked>>

reconVars == <<bufferedPayloads, onDisk, fileHandled, delivered>>

dispatchVars == <<received, subscriber, waiting, sem, dropped, excess>>

pktVars == <<packet, checksumSet, verifyRet>>

atomVars == <<clearing, during>>

lockVars == <<holds, task, wrote>>

\* the variables of the specifications of whole exchanges
recvVars == <<receiving, ackSent>>

\* the variables of the send loops and of the history of the floods
connVars == <<connecting, dialed, connAcked>>

syncVars == <<peerLsdb, peerLinked, wire, toPeer, linkUps>>

tailVars == <<loop, refloods, connVars, syncVars>>

lastVars == <<lockVars, recvVars, tailVars>>

moreVars == <<dispatchVars, lsaParse, pktVars, atomVars, produced, lastVars>>

lateVars == <<checked, applied, streams, moreVars>>

restVars == <<sendVars, ackVars, reconVars, lateVars>>

vars == <<initialCwnd, outVars, routerVars, inVars, hostVars, restVars, flood, panicked>>

----------------------------------------------------------------------------
\* Bounds of the model

\* packet numbers handed out per destination before the counter is cleared
MaxPktNum == 3
\* fired timer callbacks that may wait for the lock of the tracker at once
MaxCallbacks == 1
\* common.RETRIES_PER_PACKET is 10 (common/config.go); the tracker distinguishes only
\* the first expiry (retries = RETRIES_PER_PACKET), the last one (retries = 1) and
\* those between, all of which 3 has
RETRIES_PER_PACKET == 3
\* highest sequence number an LSA carries
MaxSeqNum == 1
\* highest packet number a received packet carries
MaxInPktNum == 7
\* common.RECEIVE_BUFFER_SIZE is 1000; the incoming tracker only compares the distance
\* of a packet number from the highest contiguous one with it
RECEIVE_BUFFER_SIZE == 6
\* highest packet number exchanged with the neighbor while the cleanup is examined
MaxLinePktNum == 2
\* packets sent to the neighbor while the cleanup is examined
MaxLineSent == 1

----------------------------------------------------------------------------
\* Program constants

\* the argument of NewOutgoingPktNumHandler(initialCwnd): common.INITIAL_CWND is 10;
\* the handler is examined with the smallest window, and with the smallest window
\* that lets several packets be in flight at once
NarrowCwnd == 1
WideCwnd == 2
\* math.MaxInt64; TLC integers are 32 bit wide, the model only compares cwnd with it
MathMaxInt64 == 2147483647
\* stands for 2^32, the span of uint32: every packet number of the model is far below it
Uint32Span == 1000000
\* math.MaxInt, the distance of a host not reached yet
MathMaxInt == 2147483646

OutAddrs == {"n2"}
PktNums == 0 .. (MaxPktNum - 1)

----------------------------------------------------------------------------
\* Go map helpers

Get(m, k, zero) == IF k \in DOMAIN m THEN m[k] ELSE zero
Put(m, k, v) == [x \in (DOMAIN m) \cup {k} |-> IF x = k THEN v ELSE m[x]]
Del(m, k) == [x \in (DOMAIN m) \ {k} |-> m[x]]
EmptyMap == [x \in {} |-> 0]
\* bookkeeping of the environment keeps no empty inner map
PutN(m, k, inner) == IF DOMAIN inner = {} THEN Del(m, k) ELSE Put(m, k, inner)

Max(a, b) == IF a >= b THEN a ELSE b
MinOf(S) == CHOOSE x \in S : \A y \in S : x <= y



----------------------------------------------------------------------------
\* sequencing/out.go: OutgoingPktNumHandler

\* ret and observed hold what the step just taken returned to its caller
NoRet == "none"
NoObserved == {}

\* h.mu can be taken: no handler loops under it and the process has not crashed
OutFree == ~hung /\ ~panicked

\* fired callbacks of (a, k) that wait for h.mu
CallbackCount(a, k) == Get(Get(callbacks, a, EmptyMap), k, 0)
RECURSIVE SumCounts(_, _)
SumCounts(m, keys) ==
    IF keys = {} THEN 0
    ELSE LET k == CHOOSE x \in keys : TRUE IN m[k] + SumCounts(m, keys \ {k})
\* all callbacks waiting for the lock
PendingCallbacks ==
    LET perAddr == [a \in DOMAIN callbacks |-> SumCounts(callbacks[a], DOMAIN callbacks[a])]
    IN SumCounts(perAddr, DOMAIN perAddr)
SetCallbackCount(a, k, n) ==
    LET inner == Get(callbacks, a, EmptyMap) IN
    PutN(callbacks, a, IF n = 0 THEN Del(inner, k) ELSE Put(inner, k, n))

\* uint32(h.highestAckedContiguousPktNum[addr] + 1)
NextHighest(h) == (h + 1) % Uint32Span

\* The advance loop of removeOpenAck leaves at highest value h:
\* the next number is still an open ack, or it is beyond the last packet sent.
\* h.packetNumbers[addr] - 1 is computed in uint32: with no counter for addr it is
\* 2^32 - 1 and no uint32 exceeds it.
AdvanceStops(h, keys, a) ==
    \/ NextHighest(h) \in keys
    \/ a \in DOMAIN packetNumbers /\ NextHighest(h) > packetNumbers[a] - 1

\* fault for C14: highestAckedContiguousPktNum is never advanced
AdvanceCountsNone(h, keys, a) == {0}
\* Number of increments the advance loop performs from h; the empty set when the
\* loop never ends. With a counter the loop ends within MaxPktNum increments;
\* without one it ends at the first open ack met going round the uint32 range.
AdvanceCounts(h, keys, a) ==
    {j \in 0 .. MaxPktNum : AdvanceStops(h + j, keys, a)}
        \cup {(k - (h + 1)) % Uint32Span : k \in keys}

\* fault for C7: one retry too many
NewOpenAckExtraRetry == [retries |-> RETRIES_PER_PACKET + 1, timer |-> "armed"]
\* createOpenAck, with the timer AddOpenAck starts
NewOpenAck == [retries |-> RETRIES_PER_PACKET, timer |-> "armed"]

\* observer.NotifyObservers(data) on the channel SubscribeOnce returned for an open
\* ack. Two receivers wait on that channel: the caller of AddOpenAck and the goroutine
\* SubscribeOnce started. The caller reads data, or, when that goroutine receives
\* the value first and Unsubscribe closes the channel, the zero value of bool.
NotifyObservers(data) == {data, FALSE}

\* GetNextpacketNumber, as called by BuildSequencedPacket: the caller now holds a
\* packet with this number and has yet to register it.
GetNextpacketNumber(a) ==
    /\ OutFree
    /\ Get(packetNumbers, a, 0) < MaxPktNum
    /\ LET seqNum == Get(packetNumbers, a, 0) IN
        /\ packetNumbers' = Put(packetNumbers, a, seqNum + 1)
        /\ built' = Put(built, a, Get(built, a, {}) \cup {seqNum})
    /\ UNCHANGED <<openAcks, highestAckedContiguousPktNum, cwnd, ssthresh, cAvoidanceAcc,
                   lastCongestionEventTime, hung, panicked, callbacks,
                   expiries>>
    /\ observed' = NoObserved /\ ret' = NoRet

\* fault for C10: the window test off by one
ExceedsCwndOffByOne(pktNum64, highestAcked, cw) == pktNum64 - highestAcked >= cw
\* the congestion window test of AddOpenAck
ExceedsCwnd(pktNum64, highestAcked, cw) == pktNum64 - highestAcked > cw

\* AddOpenAck for a built packet k to a
AddOpenAck(a, k) ==
    /\ OutFree
    /\ k \in Get(built, a, {})
    /\ IF k \in DOMAIN Get(openAcks, a, EmptyMap)
        THEN \* assert.Assert(!exists, ...)
             /\ panicked' = TRUE
             /\ UNCHANGED <<packetNumbers, openAcks, highestAckedContiguousPktNum, cwnd,
                            ssthresh, cAvoidanceAcc, lastCongestionEventTime, hung, built,
                            callbacks, expiries>>
             /\ ret' = NoRet
        ELSE LET highestAcked == Get(highestAckedContiguousPktNum, a, -1)
                 cw == Get(cwnd, a, initialCwnd)
             IN
             /\ highestAckedContiguousPktNum' = Put(highestAckedContiguousPktNum, a, highestAcked)
             /\ cwnd' = Put(cwnd, a, cw)
             /\ IF ExceedsCwnd(k, highestAcked, cw)
                 THEN /\ ret' = "cwnd_full"
                      /\ UNCHANGED <<openAcks, built, expiries>>
                 ELSE /\ ret' = "nil"
                      /\ openAcks' = Put(openAcks, a, Put(Get(openAcks, a, EmptyMap), k, NewOpenAck))
                      /\ expiries' = Put(expiries, a, Put(Get(expiries, a, EmptyMap), k, 0))
                      /\ built' = IF built[a] = {k} THEN Del(built, a)
                                                    ELSE Put(built, a, built[a] \ {k})
             /\ UNCHANGED <<packetNumbers, ssthresh, cAvoidanceAcc, lastCongestionEventTime,
                            hung, panicked, callbacks>>
    /\ observed' = NoObserved

\* fault for C13: the window grows on every ACK
GrowCwndEveryAck(cw, ss, accu) == [cwnd |-> cw + 1, acc |-> 0]
\* the window growth of removeOpenAck on a received ACK (slow start / congestion avoidance)
GrowCwnd(cw, ss, accu) ==
    IF cw < ss
        THEN [cwnd |-> cw + 1, acc |-> 0]
        ELSE IF accu + 1 >= cw
            THEN [cwnd |-> cw + 1, acc |-> 0]
            ELSE [cwnd |-> cw, acc |-> accu + 1]

\* removeOpenAck(addr, pktNum, ackReceived), called with h.mu held and the open ack
\* present. With ackReceived = FALSE it leaves cwnd, ssthresh and the accumulator to
\* its caller.
removeOpenAck(a, k, ackReceived) ==
    LET rest == Del(Get(openAcks, a, EmptyMap), k)
        keys == DOMAIN rest
        h0 == Get(highestAckedContiguousPktNum, a, 0)
        counts == AdvanceCounts(h0, keys, a)
    IN
    /\ \E got \in NotifyObservers(ackReceived) :
            observed' = {[addr |-> a, pktNum |-> k, notified |-> ackReceived, got |-> got]}
    /\ expiries' = PutN(expiries, a, Del(Get(expiries, a, EmptyMap), k))
    /\ openAcks' = IF keys = {} THEN Del(openAcks, a) ELSE Put(openAcks, a, rest)
    /\ IF counts = {}
        THEN \* the advance loop never ends: h.mu stays locked
             /\ hung' = TRUE
             /\ UNCHANGED highestAckedContiguousPktNum
             /\ ackReceived => UNCHANGED <<cwnd, ssthresh, cAvoidanceAcc>>
        ELSE /\ hung' = hung
             /\ highestAckedContiguousPktNum' =
                    IF MinOf(counts) = 0 /\ a \notin DOMAIN highestAckedContiguousPktNum
                        THEN highestAckedContiguousPktNum
                        ELSE Put(highestAckedContiguousPktNum, a, h0 + MinOf(counts))
             /\ ackReceived =>
                    LET ss == Get(ssthresh, a, MathMaxInt64)
                        g == GrowCwnd(Get(cwnd, a, 0), ss, Get(cAvoidanceAcc, a, 0))
                    IN /\ ssthresh' = Put(ssthresh, a, ss)
                       /\ cwnd' = Put(cwnd, a, g.cwnd)
                       /\ cAvoidanceAcc' = Put(cAvoidanceAcc, a, g.acc)

\* RemoveOpenAck(addr, pktNum): an ACK from a for packet number k has arrived
RemoveOpenAck(a, k) ==
    /\ OutFree
    /\ IF k \notin DOMAIN Get(openAcks, a, EmptyMap)
        THEN /\ UNCHANGED <<openAcks, highestAckedContiguousPktNum, cwnd, ssthresh,
                            cAvoidanceAcc, hung, expiries>>
             /\ observed' = NoObserved
        ELSE removeOpenAck(a, k, TRUE)
    /\ UNCHANGED <<packetNumbers, lastCongestionEventTime, panicked, built, callbacks>>
    /\ ret' = NoRet

\* the timer of the open ack (a, k) fires: its callback starts and waits for h.mu
TimerFire(a, k) ==
    /\ ~panicked
    /\ k \in DOMAIN Get(openAcks, a, EmptyMap)
    /\ openAcks[a][k].timer = "armed"
    /\ PendingCallbacks < MaxCallbacks
    /\ openAcks' = Put(openAcks, a, Put(openAcks[a], k, [openAcks[a][k] EXCEPT !.timer = "idle"]))
    /\ callbacks' = SetCallbackCount(a, k, CallbackCount(a, k) + 1)
    /\ UNCHANGED <<packetNumbers, highestAckedContiguousPktNum, cwnd, ssthresh, cAvoidanceAcc,
                   lastCongestionEventTime, hung, panicked, built, expiries>>
    /\ observed' = NoObserved /\ ret' = NoRet

\* the multiplicative decrease of handleAckTimeout
DecreasedSsthresh(cw) == Max(cw \div 2, 2)
DecreasedCwnd(cw) == Max(cw \div 2, initialCwnd)

\* fault for C12: the cooldown is never observed
CooldownOverAlways(a) == TRUE
\* time.Since(h.lastCongestionEventTime[addr]) > common.ACK_TIMEOUT_DURATION;
\* the zero time of a missing entry is long ago
CooldownOver(a) == Get(lastCongestionEventTime, a, "elapsed") = "elapsed"

\* handleAckTimeout(addr, pktNum, resendFunc): a fired callback obtains h.mu
handleAckTimeout(a, k) ==
    /\ OutFree
    /\ CallbackCount(a, k) > 0
    /\ callbacks' = SetCallbackCount(a, k, CallbackCount(a, k) - 1)
    /\ IF k \notin DOMAIN Get(openAcks, a, EmptyMap)
        THEN /\ UNCHANGED <<openAcks, highestAckedContiguousPktNum, cwnd, ssthresh,
                            cAvoidanceAcc, lastCongestionEventTime, hung, expiries>>
             /\ observed' = NoObserved
        ELSE LET openAck == openAcks[a][k]
                 decrease == openAck.retries = RETRIES_PER_PACKET /\ CooldownOver(a)
                 cw == Get(cwnd, a, 0)
             IN
             /\ IF decrease
                 THEN /\ ssthresh' = Put(ssthresh, a, DecreasedSsthresh(cw))
                      /\ cwnd' = Put(cwnd, a, DecreasedCwnd(cw))
                      /\ cAvoidanceAcc' = Put(cAvoidanceAcc, a, 0)
                      /\ lastCongestionEventTime' = Put(lastCongestionEventTime, a, "recent")
                 ELSE UNCHANGED <<ssthresh, cwnd, cAvoidanceAcc, lastCongestionEventTime>>
             /\ IF openAck.retries - 1 = 0
                 THEN removeOpenAck(a, k, FALSE)
                 ELSE /\ openAcks' = Put(openAcks, a, Put(openAcks[a], k,
                              [retries |-> openAck.retries - 1, timer |-> "armed"]))
                      /\ expiries' = Put(expiries, a, Put(expiries[a], k, expiries[a][k] + 1))
                      /\ observed' = NoObserved
                      /\ UNCHANGED <<highestAckedContiguousPktNum, hung>>
    /\ UNCHANGED <<packetNumbers, panicked, built>>
    /\ ret' = NoRet

\* fault for C9: the waiters are not notified
ClearNotificationsNone(a) == {{}}
\* the loop of ClearPacketNumbers over the open acks of addr: every waiter is
\* notified false
ClearNotifications(a) ==
    LET open == DOMAIN Get(openAcks, a, EmptyMap)
        outcomes == [open -> NotifyObservers(FALSE)]
    IN {{[addr |-> a, pktNum |-> k, notified |-> FALSE, got |-> f[k]] : k \in open} :
            f \in outcomes}

\* ClearPacketNumbers(addr)
ClearPacketNumbers(a) ==
    /\ OutFree
    /\ packetNumbers' = Del(packetNumbers, a)
    /\ cwnd' = Del(cwnd, a)
    /\ ssthresh' = Del(ssthresh, a)
    /\ cAvoidanceAcc' = Del(cAvoidanceAcc, a)
    /\ highestAckedContiguousPktNum' = Del(highestAckedContiguousPktNum, a)
    /\ lastCongestionEventTime' = Del(lastCongestionEventTime, a)
    /\ openAcks' = IF a \in DOMAIN openAcks THEN Put(openAcks, a, EmptyMap) ELSE openAcks
    /\ observed' \in ClearNotifications(a)
    /\ expiries' = Del(expiries, a)
    /\ UNCHANGED <<hung, panicked, built, callbacks>>
    /\ ret' = NoRet

\* more than ACK_TIMEOUT_DURATION has passed since the last congestion event of a
CooldownElapses(a) ==
    /\ ~panicked
    /\ a \in DOMAIN lastCongestionEventTime
    /\ lastCongestionEventTime[a] = "recent"
    /\ lastCongestionEventTime' = Put(lastCongestionEventTime, a, "elapsed")
    /\ UNCHANGED <<packetNumbers, openAcks, highestAckedContiguousPktNum, cwnd, ssthresh,
                   cAvoidanceAcc, hung, panicked, built, callbacks, expiries>>
    /\ observed' = NoObserved /\ ret' = NoRet

----------------------------------------------------------------------------
\* NewOutgoingPktNumHandler
InitOut ==
    /\ packetNumbers = EmptyMap
    /\ openAcks = EmptyMap
    /\ highestAckedContiguousPktNum = EmptyMap
    /\ cwnd = EmptyMap
    /\ ssthresh = EmptyMap
    /\ cAvoidanceAcc = EmptyMap
    /\ lastCongestionEventTime = EmptyMap
    /\ hung = FALSE
    /\ panicked = FALSE
    /\ built = EmptyMap
    /\ callbacks = EmptyMap
    /\ observed = NoObserved
    /\ expiries = EmptyMap
    /\ ret = NoRet

----------------------------------------------------------------------------
\* routing: Router (LSDB, neighbor table, routing table)

\* the hosts of the network; localAddr is the address of the local socket
Hosts == {"n1", "n2", "n3", "n4"}
localAddr == "n1"
\* sequence numbers carried by received LSAs
SeqNums == 0 .. MaxSeqNum

\* netip.AddrPort of a host
AddrPortOf(n) == <<n, "port">>
\* LSAEntry; Neighbors holds each neighbor once, its order is chosen where it is read
LSAEntry(seqNum, neighbors) == [SeqNum |-> seqNum, Neighbors |-> neighbors]
\* the zero value LSAEntry{}
ZeroLSA == LSAEntry(0, {})

NoRouterRet == [op |-> "none", removedNeighbor |-> "none", notRoutable |-> {},
                unreachableHosts |-> {}]

\* fault for C2: no host counts as a direct neighbor
isNeighborNever(nt, addr) == [ok |-> FALSE, addrPort |-> <<>>]
\* isNeighbor
isNeighbor(nt, addr) ==
    IF addr \in DOMAIN nt THEN [ok |-> TRUE, addrPort |-> nt[addr].NextHop]
                          ELSE [ok |-> FALSE, addrPort |-> <<>>]

\* addNeighbor, its assertion apart (see AddNeighbor)
addNeighbor(nt, n) == Put(nt, n, [NextHop |-> AddrPortOf(n)])

\* removeNeighbor
removeNeighbor(nt, addr) == Del(nt, addr)

\* getNextSequenceNumber
getNextSequenceNumber(l, addr) ==
    IF addr \in DOMAIN l THEN (l[addr].SeqNum + 1) % Uint32Span ELSE 0

\* recalculateLocalLSA
recalculateLocalLSA(l, nt) ==
    Put(l, localAddr, LSAEntry(getNextSequenceNumber(l, localAddr), DOMAIN nt))

\* updateLSA: a sequence number not newer than the stored one changes nothing
updateLSA(l, srcAddr, seqNum, neighborAddresses) ==
    IF srcAddr \in DOMAIN l /\ l[srcAddr].SeqNum >= seqNum
        THEN l
        ELSE Put(l, srcAddr, LSAEntry(seqNum, neighborAddresses))

\* the queue buildRoutingTable starts from
InitialQueue(l, nt) ==
    [addr \in (DOMAIN l) \ {localAddr} |->
        IF isNeighbor(nt, addr).ok
            THEN [Dist |-> 1, NextHop |-> isNeighbor(nt, addr).addrPort]
            ELSE [Dist |-> MathMaxInt, NextHop |-> <<>>]]

\* the nodes heap.Pop may return: those of least Dist. Which of them the heap holds
\* first depends on the iteration order of the LSDB map.
PopCandidates(queue) ==
    {a \in DOMAIN queue : \A b \in DOMAIN queue : queue[a].Dist <= queue[b].Dist}

\* the relaxation of the nodes adjacent to the popped node cur
Relax(l, rest, rt1, cur, currentNode) ==
    [a \in DOMAIN rest |->
        IF /\ a \in l[cur].Neighbors
           /\ a \notin DOMAIN rt1
           /\ a # localAddr
           /\ currentNode.Dist + 1 < rest[a].Dist
            THEN [Dist |-> currentNode.Dist + 1, NextHop |-> currentNode.NextHop]
            ELSE rest[a]]

\* the main loop of buildRoutingTable: every result the pop order allows. Once the
\* least Dist is math.MaxInt every node left is popped as unreachable.
RECURSIVE DijkstraLoop(_, _, _, _)
DijkstraLoop(l, queue, rt, unreachableAddrs) ==
    IF DOMAIN queue = {}
        THEN {[routingTable |-> rt, unreachableAddrs |-> unreachableAddrs]}
    ELSE IF \A a \in DOMAIN queue : queue[a].Dist = MathMaxInt
        THEN {[routingTable |-> rt, unreachableAddrs |-> unreachableAddrs \cup DOMAIN queue]}
    ELSE UNION {LET currentNode == queue[cur]
                    rest == Del(queue, cur)
                    rt1 == Put(rt, cur, currentNode.NextHop)
                IN DijkstraLoop(l, Relax(l, rest, rt1, cur, currentNode), rt1,
                                unreachableAddrs)
                : cur \in PopCandidates(queue)}

\* buildRoutingTable: the routing tables it may build, each with the addresses
\* found not routable
buildRoutingTable(l, nt) == DijkstraLoop(l, InitialQueue(l, nt), EmptyMap, {})

\* fault for C4: the routing table is not consulted
StillReachableNever(rt, removedNeighbor) == FALSE
\* getUnreachableHosts: the removed neighbor is still routable, or is the local host
StillReachable(rt, removedNeighbor) ==
    removedNeighbor \in DOMAIN rt \/ removedNeighbor = localAddr

\* the BFS of getUnreachableHosts: nodes left to visit, nodes visited so far
RECURSIVE BFSLoop(_, _, _)
BFSLoop(l, queue, visited) ==
    IF queue = {} THEN visited
    ELSE LET node == CHOOSE n \in queue : TRUE IN
         IF node \in visited \/ node \notin DOMAIN l
            THEN BFSLoop(l, queue \ {node}, visited)
            ELSE BFSLoop(l, (queue \ {node}) \cup (l[node].Neighbors \ visited),
                         visited \cup {node})

\* getUnreachableHosts(notRoutableHosts, lsaOwner, oldLSA) on LSDB l and routing
\* table rt; removedNeighbor is the first neighbor of oldLSA missing in the current
\* LSA ("none": there is none). failed: an assertion of the function failed.
getUnreachableHosts(l, rt, notRoutableHosts, lsaOwner, oldLSA, removedNeighbor) ==
    LET nil == [failed |-> FALSE, removedNeighbor |-> "none", hosts |-> {}] IN
    IF lsaOwner \notin DOMAIN l
        THEN [nil EXCEPT !.failed = TRUE]
    ELSE IF Cardinality(l[lsaOwner].Neighbors) >= Cardinality(oldLSA.Neighbors)
        THEN nil
    ELSE IF StillReachable(rt, removedNeighbor)
        THEN [nil EXCEPT !.removedNeighbor = removedNeighbor]
    ELSE IF removedNeighbor \notin DOMAIN l
        THEN [nil EXCEPT !.removedNeighbor = removedNeighbor]
    ELSE LET visited == BFSLoop(l, l[removedNeighbor].Neighbors \ {lsaOwner},
                                {removedNeighbor})
         IN [failed |-> Cardinality(visited) > Cardinality(notRoutableHosts),
             removedNeighbor |-> removedNeighbor,
             hosts |-> visited]

\* the neighbors getUnreachableHosts may find removed first
RemovedCandidates(l, lsaOwner, oldLSA) ==
    LET removed == oldLSA.Neighbors \ Get(l, lsaOwner, ZeroLSA).Neighbors
    IN IF removed = {} THEN {"none"} ELSE removed

\* the part AddNeighbor, RemoveNeighbor and UpdateLSA share: build the routing
\* table on the changed LSDB l1 and neighbor table nt1, then getUnreachableHosts.
\* Every outcome the map and heap orders allow: the router state left and what is
\* returned; failed: an assertion failed.
RebuildAndReport(op, l1, nt1, lsaOwner, oldLSA) ==
    {LET u == getUnreachableHosts(l1, built1.routingTable, built1.unreachableAddrs,
                                  lsaOwner, oldLSA, removedNeighbor)
         failed == u.failed \/ (op = "AddNeighbor" /\ u.hosts # {})
     IN [lsdb |-> l1,
         neighborTable |-> nt1,
         routingTable |-> built1.routingTable,
         failed |-> failed,
         ret |-> [op |-> op,
                  removedNeighbor |-> u.removedNeighbor,
                  notRoutable |-> built1.unreachableAddrs,
                  unreachableHosts |-> IF failed THEN {} ELSE u.hosts]]
     : built1 \in buildRoutingTable(l1, nt1),
       removedNeighbor \in RemovedCandidates(l1, lsaOwner, oldLSA)}

\* the outcomes of Router.RemoveNeighbor(addr) on LSDB l and neighbor table nt
RemoveNeighborOutcomes(l, nt, addr) ==
    LET nt1 == removeNeighbor(nt, addr)
    IN RebuildAndReport("RemoveNeighbor", recalculateLocalLSA(l, nt1), nt1,
                        localAddr, Get(l, localAddr, ZeroLSA))

\* fault for C18: the LSA received is stored whatever the stored sequence number is
UpdateLSAOverwrites(l, nt, srcAddr, seqNum, neighborAddresses) ==
    RebuildAndReport("UpdateLSA", Put(l, srcAddr, LSAEntry(seqNum, neighborAddresses)),
                     nt, srcAddr, Get(l, srcAddr, ZeroLSA))
\* the outcomes of Router.UpdateLSA(srcAddr, seqNum, neighborAddresses)
UpdateLSAOutcomes(l, nt, srcAddr, seqNum, neighborAddresses) ==
    RebuildAndReport("UpdateLSA", updateLSA(l, srcAddr, seqNum, neighborAddresses),
                     nt, srcAddr, Get(l, srcAddr, ZeroLSA))

\* the router is left as the outcome r says
RouterBecomes(r) ==
    /\ lsdb' = r.lsdb
    /\ neighborTable' = r.neighborTable
    /\ routingTable' = r.routingTable
    /\ panicked' = r.failed
    /\ routerRet' = r.ret

\* AddNeighbor(nextHop)
AddNeighbor(n) ==
    /\ ~panicked
    /\ IF n \in DOMAIN neighborTable
        THEN \* assert.Assert(!exists, ...) of addNeighbor
             /\ panicked' = TRUE
             /\ routerRet' = [NoRouterRet EXCEPT !.op = "AddNeighbor"]
             /\ UNCHANGED <<lsdb, neighborTable, routingTable>>
        ELSE LET nt1 == addNeighbor(neighborTable, n)
             IN \E r \in RebuildAndReport("AddNeighbor", recalculateLocalLSA(lsdb, nt1), nt1,
                                          localAddr, Get(lsdb, localAddr, ZeroLSA)) :
                    RouterBecomes(r)

\* RemoveNeighbor(addr); its callers check IsNeighbor(addr) first
RemoveNeighbor(addr) ==
    /\ ~panicked
    /\ addr \in DOMAIN neighborTable
    /\ \E r \in RemoveNeighborOutcomes(lsdb, neighborTable, addr) : RouterBecomes(r)

\* UpdateLSA(srcAddr, seqNum, neighborAddresses)
UpdateLSA(srcAddr, seqNum, neighborAddresses) ==
    /\ ~panicked
    /\ srcAddr \notin neighborAddresses
    /\ \E r \in UpdateLSAOutcomes(lsdb, neighborTable, srcAddr, seqNum, neighborAddresses) :
            RouterBecomes(r)

\* NewRouter
InitRouter ==
    /\ lsdb = EmptyMap
    /\ neighborTable = EmptyMap
    /\ routingTable = EmptyMap
    /\ routerRet = NoRouterRet

\* every LSDB over Hosts with its neighbor table: remote LSAs are any that were
\* received, the local LSA lists the neighbor table, the routing table was built on them
LSDBs ==
    UNION {{f \in [D -> {LSAEntry(0, nb) : nb \in SUBSET Hosts}] :
                \A h \in D : h \notin f[h].Neighbors} :
           D \in SUBSET (Hosts \ {localAddr})}
RouterInputs ==
    /\ \E nbrs \in SUBSET (Hosts \ {localAddr}) :
       \E remote \in LSDBs :
            /\ neighborTable = [n \in nbrs |-> [NextHop |-> AddrPortOf(n)]]
            /\ lsdb = Put(remote, localAddr, LSAEntry(0, nbrs))
            /\ routingTable = (CHOOSE b \in buildRoutingTable(lsdb, neighborTable) : TRUE).routingTable
    /\ routerRet = NoRouterRet

----------------------------------------------------------------------------
\* sequencing/in.go: IncomingPktNumHandler

InPktNums == 0 .. MaxInPktNum
NoInRet == [peerAddr |-> "none", seqNum |-> -1, dup |-> FALSE, err |-> "none"]

\* fault for C6: packet numbers stored as future ones are not passed
AdvanceHighestNever(highest, future) == [highest |-> highest, future |-> future]
\* the loop of IsDuplicatePacket that advances the highest contiguous number past
\* the stored future numbers now contiguous, deleting them
RECURSIVE AdvanceHighest(_, _)
AdvanceHighest(highest, future) ==
    IF highest + 1 \in future
        THEN AdvanceHighest(highest + 1, future \ {highest + 1})
        ELSE [highest |-> highest, future |-> future]

\* fault for C30: no packet number is too far ahead
TooFarAheadNever(seqNum, highest) == FALSE
\* seqNum-highest > common.RECEIVE_BUFFER_SIZE
TooFarAhead(seqNum, highest) == seqNum - highest > RECEIVE_BUFFER_SIZE

\* IsDuplicatePacket on the maps hp (highestPktNum) and fp (futurePktNums) for a
\* packet from peerAddr to destAddr with packet number seqNum: what it returns and
\* the maps it leaves
DuplicateCheck(hp, fp, destAddr, peerAddr, seqNum) ==
    LET highest == Get(hp, peerAddr, -1)
        future == Get(fp, peerAddr, {})
        same(dup, err) == [dup |-> dup, err |-> err, highestPktNum |-> hp, futurePktNums |-> fp]
    IN IF destAddr # localAddr THEN same(FALSE, "not_for_us")
       ELSE IF seqNum <= highest THEN same(TRUE, "nil")
       ELSE IF seqNum = highest + 1
           THEN LET adv == AdvanceHighest(seqNum, future)
                IN [dup |-> FALSE, err |-> "nil",
                    highestPktNum |-> Put(hp, peerAddr, adv.highest),
                    futurePktNums |-> IF adv.future = {} THEN Del(fp, peerAddr)
                                                         ELSE Put(fp, peerAddr, adv.future)]
       ELSE IF TooFarAhead(seqNum, highest) THEN same(TRUE, "too_far_ahead")
       ELSE IF seqNum \in future THEN same(TRUE, "nil")
       ELSE [dup |-> FALSE, err |-> "nil", highestPktNum |-> hp,
             futurePktNums |-> Put(fp, peerAddr, future \cup {seqNum})]

\* the packet numbers of peerAddr received within the window, once seqNum has come
Arrive(arr, hp, destAddr, peerAddr, seqNum) ==
    IF destAddr = localAddr /\ seqNum - Get(hp, peerAddr, -1) <= RECEIVE_BUFFER_SIZE
        THEN Put(arr, peerAddr, Get(arr, peerAddr, {}) \cup {seqNum})
        ELSE arr

\* IsDuplicatePacket(packet)
IsDuplicatePacket(destAddr, peerAddr, seqNum) ==
    /\ ~panicked
    /\ LET d == DuplicateCheck(highestPktNum, futurePktNums, destAddr, peerAddr, seqNum)
       IN /\ highestPktNum' = d.highestPktNum
          /\ futurePktNums' = d.futurePktNums
          /\ inRet' = [peerAddr |-> peerAddr, seqNum |-> seqNum, dup |-> d.dup, err |-> d.err]
    /\ arrived' = Arrive(arrived, highestPktNum, destAddr, peerAddr, seqNum)

\* ClearIncomingPacketNumbers(peerAddr)
ClearIncomingPacketNumbers(peerAddr) ==
    /\ ~panicked
    /\ highestPktNum' = Del(highestPktNum, peerAddr)
    /\ futurePktNums' = Del(futurePktNums, peerAddr)
    /\ arrived' = Del(arrived, peerAddr)
    /\ inRet' = NoInRet

\* NewIncomingPktNumHandler
InitIn ==
    /\ highestPktNum = EmptyMap
    /\ futurePktNums = EmptyMap
    /\ arrived = EmptyMap
    /\ inRet = NoInRet

----------------------------------------------------------------------------
\* sequencing/blocking.go, reconstruction: per-host state

MsgTypes == {"MSG"}

\* SequenceBlocker.Block
Block(destAddr, msgType) ==
    /\ ~panicked
    /\ blocked' = blocked \cup {[destinationAddr |-> destAddr, msgType |-> msgType]}
    /\ UNCHANGED <<fileReconstructors, msgReconstructors>>
    /\ cleared' = {}

\* SequenceBlocker.Unblock
Unblock(destAddr, msgType) ==
    /\ ~panicked
    /\ blocked' = blocked \ {[destinationAddr |-> destAddr, msgType |-> msgType]}
    /\ UNCHANGED <<fileReconstructors, msgReconstructors>>
    /\ cleared' = {}

\* most streams started while the blockers are examined
MaxStreams == 2

\* pkt.MsgTypeChatMessage
MsgTypeChatMessage == "MSG"

\* HandleSend (the msg command): the goroutine id that sends the chunks is started
\* when Block returns true
HandleSend(peerIP, id) ==
    /\ id \notin {st.id : st \in streams}
    /\ Block(peerIP, MsgTypeChatMessage)
    /\ streams' = IF [destinationAddr |-> peerIP, msgType |-> MsgTypeChatMessage] \in blocked
                    THEN streams
                    ELSE streams \cup {[id |-> id, destinationAddr |-> peerIP,
                                        msgType |-> MsgTypeChatMessage]}

\* sendMsgChunks of stream st returns: the deferred Unblock
sendChunksReturn(st) ==
    /\ st \in streams
    /\ Unblock(st.destinationAddr, st.msgType)
    /\ streams' = streams \ {st}

\* GetOrCreateFileReconstructor(addr)
GetOrCreateFileReconstructor(addr) ==
    /\ ~panicked
    /\ fileReconstructors' = fileReconstructors \cup {addr}
    /\ UNCHANGED <<blocked, msgReconstructors>>
    /\ cleared' = {}

\* GetOrCreateMsgReconstructor(addr)
GetOrCreateMsgReconstructor(addr) ==
    /\ ~panicked
    /\ msgReconstructors' = msgReconstructors \cup {addr}
    /\ UNCHANGED <<blocked, fileReconstructors>>
    /\ cleared' = {}

InitHosts ==
    /\ blocked = {}
    /\ fileReconstructors = {}
    /\ msgReconstructors = {}
    /\ cleared = {}

----------------------------------------------------------------------------
\* connection.ClearUnreachableHosts and the handlers that call it

\* Router.RemoveLSA(addr)
RemoveLSA(l, addr) == Del(l, addr)

\* fault for C5: the blockers are kept
ClearBlockersNone(b, destAddr) == b
\* ClearBlockers(destAddr)
ClearBlockers(b, destAddr) == {x \in b : x.destinationAddr # destAddr}

\* ClearFileReconstructor(addr), ClearMsgReconstructor(addr)
ClearFileReconstructor(fr, addr) == fr \ {addr}
ClearMsgReconstructor(mr, addr) == mr \ {addr}

\* one of the calls ClearUnreachableHosts makes for a host, applied to the state it clears
ClearCall(call, state, addr) ==
    CASE call = "RemoveLSA" -> RemoveLSA(state, addr)
      [] call = "ClearIncomingPacketNumbers" -> Del(state, addr)
      [] call = "ClearBlockers" -> ClearBlockers(state, addr)
      [] call = "ClearFileReconstructor" -> ClearFileReconstructor(state, addr)
      [] call = "ClearMsgReconstructor" -> ClearMsgReconstructor(state, addr)

\* for _, addr := range unreachableHosts: the call made for each host
RECURSIVE ForEach(_, _, _)
ForEach(call, state, unreachableHosts) ==
    IF unreachableHosts = {} THEN state
    ELSE LET addr == CHOOSE x \in unreachableHosts : TRUE
         IN ForEach(call, ClearCall(call, state, addr), unreachableHosts \ {addr})

\* the outgoing tracker after ClearPacketNumbers for each unreachable host. The
\* tracker holds state for the destinations of OutAddrs, a single one: clearing any
\* other host leaves its maps as they are.
ClearOutgoing(unreachableHosts) ==
    IF unreachableHosts \cap OutAddrs = {}
        THEN /\ UNCHANGED <<packetNumbers, openAcks, highestAckedContiguousPktNum, cwnd,
                            ssthresh, cAvoidanceAcc, lastCongestionEventTime, hung, built,
                            callbacks, expiries>>
             /\ observed' = NoObserved /\ ret' = NoRet
        ELSE \E a \in unreachableHosts \cap OutAddrs : ClearPacketNumbers(a)

\* the kinds of state a host has
StateOf(l, hp, fp, addr) ==
    {<<"lsdb", addr>> : x \in {addr} \cap DOMAIN l}
        \cup {<<"in", addr>> : x \in {addr} \cap (DOMAIN hp \cup DOMAIN fp)}
        \cup {<<"out", addr>> : x \in {addr} \cap DOMAIN packetNumbers}
        \cup {<<"openAck", addr>> : x \in {a \in {addr} : DOMAIN Get(openAcks, a, EmptyMap) # {}}}
        \cup {<<"blocker", addr>> : x \in {b \in blocked : b.destinationAddr = addr}}
        \cup {<<"file", addr>> : x \in {addr} \cap fileReconstructors}
        \cup {<<"msg", addr>> : x \in {addr} \cap msgReconstructors}

\* ClearUnreachableHosts(unreachableHosts), run on the LSDB l and the incoming maps
\* hp, fp, arr the handler has left so far
ClearUnreachableHosts(l, hp, fp, arr, unreachableHosts) ==
    /\ lsdb' = ForEach("RemoveLSA", l, unreachableHosts)
    /\ highestPktNum' = ForEach("ClearIncomingPacketNumbers", hp, unreachableHosts)
    /\ futurePktNums' = ForEach("ClearIncomingPacketNumbers", fp, unreachableHosts)
    /\ arrived' = ForEach("ClearIncomingPacketNumbers", arr, unreachableHosts)
    /\ ClearOutgoing(unreachableHosts)
    /\ blocked' = ForEach("ClearBlockers", blocked, unreachableHosts)
    /\ fileReconstructors' = ForEach("ClearFileReconstructor", fileReconstructors, unreachableHosts)
    /\ msgReconstructors' = ForEach("ClearMsgReconstructor", msgReconstructors, unreachableHosts)
    /\ cleared' = UNION {StateOf(l, hp, fp, addr) : addr \in unreachableHosts}

\* the router operation of a handler has left outcome r: ClearUnreachableHosts runs
\* on what it returned, unless an assertion of the router has ended the process
ClearAfter(r, hp, fp, arr) ==
    /\ neighborTable' = r.neighborTable
    /\ routingTable' = r.routingTable
    /\ routerRet' = r.ret
    /\ panicked' = r.failed
    /\ IF r.failed
        THEN /\ lsdb' = r.lsdb
             /\ highestPktNum' = hp /\ futurePktNums' = fp /\ arrived' = arr
             /\ UNCHANGED <<outVars, blocked, fileReconstructors, msgReconstructors>>
             /\ cleared' = {}
        ELSE ClearUnreachableHosts(r.lsdb, hp, fp, arr, r.ret.unreachableHosts)

\* the disconnect from neighbor addr: RemoveNeighbor, then ClearUnreachableHosts
\* (the goroutine of disconnectFrom; handleDisconnect after its IsNeighbor test)
Disconnect(addr) ==
    /\ OutFree
    /\ addr \in DOMAIN neighborTable
    /\ \E r \in RemoveNeighborOutcomes(lsdb, neighborTable, addr) :
            ClearAfter(r, highestPktNum, futurePktNums, arrived)
    /\ inRet' = NoInRet

\* no FloodLSA is under way
NoFlood == [owner |-> "none", seqNum |-> -1, except |-> "none", targets |-> {},
            remaining |-> {}, packet |-> <<>>, sent |-> {}, failed |-> {}]

\* the FloodLSA has gone through its loop over the neighbors
FloodDone == flood.remaining = {} /\ flood.packet = <<>>

\* the neighbors FloodLSA(lsaOwner, lsa, exceptAddr) sends to
FloodTargets(nt, exceptAddr) == (DOMAIN nt) \ {exceptAddr}

\* FloodLSA(lsaOwnerAddr, updatedLSA, srcAddr) as handleLSA calls it on the LSDB l
\* and the neighbor table nt: the loop over router.GetNeighbors() is about to start;
\* nothing is sent when the LSA is not in the LSDB any more
StartFlood(l, nt, lsaOwnerAddr, srcAddr) ==
    LET targets == FloodTargets(nt, srcAddr) IN
    IF targets = {} THEN NoFlood
    ELSE [owner |-> lsaOwnerAddr,
          seqNum |-> IF lsaOwnerAddr \in DOMAIN l THEN l[lsaOwnerAddr].SeqNum ELSE -1,
          except |-> srcAddr,
          targets |-> targets,
          remaining |-> IF lsaOwnerAddr \in DOMAIN l THEN targets ELSE {},
          packet |-> <<>>, sent |-> {}, failed |-> {}]

\* handleLSA: packet number pktNum from srcAddr carries the LSA of lsaOwnerAddr; the
\* step ends where the loop of FloodLSA starts
handleLSA(srcAddr, pktNum, lsaOwnerAddr, seqNum, neighborAddresses) ==
    /\ OutFree
    /\ FloodDone
    /\ LET d == DuplicateCheck(highestPktNum, futurePktNums, localAddr, srcAddr, pktNum)
           arr == Arrive(arrived, highestPktNum, localAddr, srcAddr, pktNum)
           existing == lsaOwnerAddr \in DOMAIN lsdb /\ lsdb[lsaOwnerAddr].SeqNum >= seqNum
       IN /\ inRet' = [peerAddr |-> srcAddr, seqNum |-> pktNum, dup |-> d.dup, err |-> d.err]
          /\ IF d.err # "nil" \/ d.dup \/ existing
                THEN /\ highestPktNum' = d.highestPktNum
                     /\ futurePktNums' = d.futurePktNums
                     /\ arrived' = arr
                     /\ UNCHANGED <<outVars, lsdb, neighborTable, routingTable, panicked,
                                    blocked, fileReconstructors, msgReconstructors>>
                     /\ routerRet' = NoRouterRet
                     /\ cleared' = {}
                     /\ flood' = NoFlood
                ELSE /\ \E r \in UpdateLSAOutcomes(lsdb, neighborTable, lsaOwnerAddr, seqNum,
                                                  neighborAddresses) :
                            ClearAfter(r, d.highestPktNum, d.futurePktNums, arr)
                     /\ flood' = IF panicked' THEN NoFlood
                                 ELSE StartFlood(lsdb', neighborTable', lsaOwnerAddr, srcAddr)

\* the four bytes of the address of host h
IPv4(h) == <<10, 0, 0, CHOOSE k \in 1 .. 4 : h = <<"n1", "n2", "n3", "n4">>[k]>>
\* netip.AddrFromSlice on four bytes
AddrFromSlice(b) == CHOOSE h \in Hosts : IPv4(h) = b
\* binary.BigEndian.PutUint32, binary.BigEndian.Uint32
PutUint32(n) == <<(n \div 16777216) % 256, (n \div 65536) % 256, (n \div 256) % 256, n % 256>>
BigEndianUint32(b) == b[1] * 16777216 + b[2] * 65536 + b[3] * 256 + b[4]

\* what parseLSAPayload returns without a result
NoLSA == [srcAddr |-> "none", seqNum |-> 0, neighborAddresses |-> {}]
\* parseLSAPayload; a slice expression beyond the payload (whose capacity is its
\* length, pkt.ParsePacket) ends the process: err is "panic"
parseLSAPayload(payload) ==
    IF 8 + (Len(payload) % 4) # 8
        THEN NoLSA @@ [err |-> "invalid payload length for LSA packet"]
    ELSE IF Len(payload) < 4
        THEN NoLSA @@ [err |-> "panic"]       \* payload[:4]
    ELSE IF Len(payload) < 8
        THEN NoLSA @@ [err |-> "panic"]       \* payload[4:8]
    ELSE [srcAddr |-> AddrFromSlice(SubSeq(payload, 1, 4)),
          seqNum |-> BigEndianUint32(SubSeq(payload, 5, 8)),
          neighborAddresses |-> {AddrFromSlice(SubSeq(payload, 4 * i + 1, 4 * i + 4)) :
                                    i \in 2 .. (Len(payload) \div 4) - 1},
          err |-> "nil"]

\* handleLSA on the packet pktNum from srcAddr with the payload as received
handleLSAPacket(srcAddr, pktNum, payload) ==
    LET p == parseLSAPayload(payload)
        d == DuplicateCheck(highestPktNum, futurePktNums, localAddr, srcAddr, pktNum)
    IN /\ lsaParse' = IF d.err # "nil" \/ d.dup THEN "none" ELSE p.err
       /\ IF p.err = "nil"
            THEN handleLSA(srcAddr, pktNum, p.srcAddr, p.seqNum, p.neighborAddresses)
            ELSE /\ OutFree
                 /\ FloodDone
                 /\ inRet' = [peerAddr |-> srcAddr, seqNum |-> pktNum, dup |-> d.dup,
                              err |-> d.err]
                 /\ highestPktNum' = d.highestPktNum
                 /\ futurePktNums' = d.futurePktNums
                 /\ arrived' = Arrive(arrived, highestPktNum, localAddr, srcAddr, pktNum)
                 /\ panicked' = (d.err = "nil" /\ ~d.dup /\ p.err = "panic")
                 /\ UNCHANGED <<outVars, lsdb, neighborTable, routingTable, blocked,
                                fileReconstructors, msgReconstructors>>
                 /\ routerRet' = NoRouterRet
                 /\ cleared' = {}
                 /\ flood' = NoFlood

\* most handleLSA goroutines between their test and their update at a time
MaxHandlers == 2

\* handleLSA up to its test of the stored sequence number: the goroutine of a packet
\* that is no duplicate and carries an LSA newer than the stored one goes on
handleLSAReceive(srcAddr, pktNum, lsaOwnerAddr, seqNum, neighborAddresses) ==
    /\ OutFree
    /\ Cardinality(checked) < MaxHandlers
    /\ LET d == DuplicateCheck(highestPktNum, futurePktNums, localAddr, srcAddr, pktNum)
           existing == lsaOwnerAddr \in DOMAIN lsdb /\ lsdb[lsaOwnerAddr].SeqNum >= seqNum
       IN /\ inRet' = [peerAddr |-> srcAddr, seqNum |-> pktNum, dup |-> d.dup, err |-> d.err]
          /\ highestPktNum' = d.highestPktNum
          /\ futurePktNums' = d.futurePktNums
          /\ arrived' = Arrive(arrived, highestPktNum, localAddr, srcAddr, pktNum)
          /\ checked' = IF d.err # "nil" \/ d.dup \/ existing THEN checked
                        ELSE checked \cup {[srcAddr |-> srcAddr, lsaOwnerAddr |-> lsaOwnerAddr,
                                            seqNum |-> seqNum,
                                            neighborAddresses |-> neighborAddresses]}
    /\ UNCHANGED <<outVars, lsdb, neighborTable, routingTable, panicked, blocked,
                   fileReconstructors, msgReconstructors, flood>>
    /\ routerRet' = NoRouterRet
    /\ cleared' = {}
    /\ applied' = <<>>

\* handleLSA from its UpdateLSA on, for the goroutine g that has passed the test
handleLSAApply(g) ==
    /\ OutFree
    /\ FloodDone
    /\ g \in checked
    /\ \E r \in UpdateLSAOutcomes(lsdb, neighborTable, g.lsaOwnerAddr, g.seqNum,
                                  g.neighborAddresses) :
            ClearAfter(r, highestPktNum, futurePktNums, arrived)
    /\ inRet' = NoInRet
    /\ checked' = checked \ {g}
    /\ applied' = <<g, g.lsaOwnerAddr \in DOMAIN lsdb /\ lsdb[g.lsaOwnerAddr].SeqNum >= g.seqNum>>
    /\ flood' = IF panicked' THEN NoFlood
                ELSE StartFlood(lsdb', neighborTable', g.lsaOwnerAddr, g.srcAddr)

----------------------------------------------------------------------------
\* connection.ClearUnreachableHosts call by call, beside the goroutines of other
\* packets and commands. The router operation returns with the router lock released;
\* each call of the cleanup takes the lock of its own component.

\* no ClearUnreachableHosts is under way
NoClearing == [hosts |-> {}, todo |-> <<>>, done |-> FALSE]

\* the calls ClearUnreachableHosts makes for one host, in their order
ClearCalls == <<"RemoveLSA", "ClearIncomingPacketNumbers", "ClearPacketNumbers",
                "ClearBlockers", "ClearFileReconstructor", "ClearMsgReconstructor">>

\* for _, addr := range unreachableHosts: the calls still to make, as <<call, addr>>
RECURSIVE CallsFor(_)
CallsFor(unreachableHosts) ==
    IF unreachableHosts = {} THEN <<>>
    ELSE LET addr == CHOOSE x \in unreachableHosts : TRUE
         IN [i \in 1 .. Len(ClearCalls) |-> <<ClearCalls[i], addr>>]
                \o CallsFor(unreachableHosts \ {addr})

\* ClearUnreachableHosts(unreachableHosts) is entered
StartClearing(unreachableHosts) ==
    IF unreachableHosts = {} THEN NoClearing
    ELSE [hosts |-> unreachableHosts, todo |-> CallsFor(unreachableHosts), done |-> FALSE]

\* a goroutine other than the one that cleans up runs: a finished cleanup is over
ClearingGoesOn == IF clearing.done THEN NoClearing ELSE clearing

\* another goroutine uses or creates the state kind of host addr
Uses(kind, addr) ==
    /\ clearing' = ClearingGoesOn
    /\ during' = IF clearing.todo # <<>> /\ addr \in clearing.hosts
                    THEN {<<kind, addr>>}
                    ELSE {}

\* handleDisconnect / disconnectFrom up to the return of RemoveNeighbor
DisconnectRemove(addr) ==
    /\ OutFree
    /\ clearing.todo = <<>>
    /\ RemoveNeighbor(addr)
    /\ clearing' = IF panicked' THEN NoClearing
                   ELSE StartClearing(routerRet'.unreachableHosts)
    /\ UNCHANGED <<outVars, highestPktNum, futurePktNums, arrived, blocked,
                   fileReconstructors, msgReconstructors>>
    /\ inRet' = NoInRet
    /\ cleared' = {}
    /\ during' = {}

\* handleLSA up to the return of UpdateLSA
handleLSAUpdate(srcAddr, pktNum, lsaOwnerAddr, seqNum, neighborAddresses) ==
    /\ OutFree
    /\ clearing.todo = <<>>
    /\ LET d == DuplicateCheck(highestPktNum, futurePktNums, localAddr, srcAddr, pktNum)
           existing == lsaOwnerAddr \in DOMAIN lsdb /\ lsdb[lsaOwnerAddr].SeqNum >= seqNum
       IN /\ inRet' = [peerAddr |-> srcAddr, seqNum |-> pktNum, dup |-> d.dup, err |-> d.err]
          /\ highestPktNum' = d.highestPktNum
          /\ futurePktNums' = d.futurePktNums
          /\ arrived' = Arrive(arrived, highestPktNum, localAddr, srcAddr, pktNum)
          /\ IF d.err # "nil" \/ d.dup \/ existing
                THEN /\ UNCHANGED <<lsdb, neighborTable, routingTable, panicked>>
                     /\ routerRet' = NoRouterRet
                     /\ clearing' = NoClearing
                ELSE /\ UpdateLSA(lsaOwnerAddr, seqNum, neighborAddresses)
                     /\ clearing' = IF panicked' THEN NoClearing
                                    ELSE StartClearing(routerRet'.unreachableHosts)
    /\ UNCHANGED <<outVars, blocked, fileReconstructors, msgReconstructors>>
    /\ cleared' = {}
    /\ during' = {}

\* the next call of the ClearUnreachableHosts under way
ClearNext ==
    /\ OutFree
    /\ clearing.todo # <<>>
    /\ LET call == Head(clearing.todo)[1]
           addr == Head(clearing.todo)[2]
       IN /\ lsdb' = IF call = "RemoveLSA" THEN ClearCall(call, lsdb, addr) ELSE lsdb
          /\ highestPktNum' = IF call = "ClearIncomingPacketNumbers"
                                THEN ClearCall(call, highestPktNum, addr) ELSE highestPktNum
          /\ futurePktNums' = IF call = "ClearIncomingPacketNumbers"
                                THEN ClearCall(call, futurePktNums, addr) ELSE futurePktNums
          /\ arrived' = IF call = "ClearIncomingPacketNumbers"
                          THEN ClearCall(call, arrived, addr) ELSE arrived
          /\ ClearOutgoing(IF call = "ClearPacketNumbers" THEN {addr} ELSE {})
          /\ blocked' = IF call = "ClearBlockers" THEN ClearCall(call, blocked, addr)
                        ELSE blocked
          /\ fileReconstructors' = IF call = "ClearFileReconstructor"
                                     THEN ClearCall(call, fileReconstructors, addr)
                                     ELSE fileReconstructors
          /\ msgReconstructors' = IF call = "ClearMsgReconstructor"
                                    THEN ClearCall(call, msgReconstructors, addr)
                                    ELSE msgReconstructors
    /\ clearing' = [clearing EXCEPT !.todo = Tail(@), !.done = Tail(clearing.todo) = <<>>]
    /\ UNCHANGED <<neighborTable, routingTable, panicked>>
    /\ during' = {}
    /\ routerRet' = NoRouterRet
    /\ inRet' = NoInRet
    /\ cleared' = {}

----------------------------------------------------------------------------
\* connection: sending a reliable packet along the routing table

NoSendRet == [addr |-> "none", pktNum |-> -1, ackChan |-> FALSE, err |-> "none"]

\* sequencing.CongestionWindowFullError, the value the callers of AddOpenAck test for
CongestionWindowFullError == "CongestionWindowFullError"

\* errors.Is(err, target) for errors that wrap nothing: the same error value
ErrorsIs(err, target) == err = target

\* sendPacketTo(nextHop, packet): the socket write succeeds or fails
sendPacketTo == {"nil", "write_failed"}

\* Router.GetNextHop(destinationIP)
GetNextHop(destinationIP) ==
    [found |-> destinationIP \in DOMAIN routingTable,
     addrPort |-> Get(routingTable, destinationIP, <<>>)]

\* SendReliableRoutedPacket(packet) for the built packet k to a, from its entry or
\* from the end of its sleep up to its return or its next sleep
SendReliableRoutedPacket(a, k) ==
    /\ ~panicked
    /\ k \in Get(built, a, {})
    /\ IF <<a, k>> \notin sleeping /\ ~GetNextHop(a).found
        THEN /\ sendRet' = [addr |-> a, pktNum |-> k, ackChan |-> FALSE,
                            err |-> "no next hop found for the destination address"]
             /\ UNCHANGED <<packetNumbers, openAcks, highestAckedContiguousPktNum, cwnd,
                            ssthresh, cAvoidanceAcc, lastCongestionEventTime, hung, built,
                            callbacks, expiries, panicked, sleeping>>
             /\ observed' = NoObserved /\ ret' = NoRet
        ELSE /\ AddOpenAck(a, k)
             /\ IF panicked'
                 THEN /\ sendRet' = NoSendRet
                      /\ sleeping' = sleeping \ {<<a, k>>}
                 ELSE IF ret' = "nil"
                     THEN /\ \E err \in sendPacketTo :
                                sendRet' = [addr |-> a, pktNum |-> k, ackChan |-> err = "nil",
                                            err |-> err]
                          /\ sleeping' = sleeping \ {<<a, k>>}
                     ELSE IF ErrorsIs(ret', CongestionWindowFullError)
                         THEN /\ sendRet' = NoSendRet
                              /\ sleeping' = sleeping \cup {<<a, k>>}
                         ELSE /\ sendRet' = [addr |-> a, pktNum |-> k, ackChan |-> FALSE,
                                             err |-> "failed to add open acknowledgment"]
                              /\ sleeping' = sleeping \ {<<a, k>>}

\* FloodLSA, loop body: BuildSequencedPacket for the next neighbor
FloodLSABuild(destAddr) ==
    /\ flood.packet = <<>>
    /\ destAddr \in flood.remaining
    /\ GetNextpacketNumber(destAddr)
    /\ flood' = [flood EXCEPT !.packet = <<destAddr, Get(packetNumbers, destAddr, 0)>>]

\* FloodLSA, loop body: SendReliablePacketTo for the packet built, from its entry or
\* the end of its sleep up to its return or its next sleep
FloodLSASend ==
    /\ flood.packet # <<>>
    /\ LET destAddr == flood.packet[1]
           finished == [flood EXCEPT !.packet = <<>>, !.remaining = @ \ {destAddr}]
       IN /\ AddOpenAck(destAddr, flood.packet[2])
          /\ flood' = IF panicked' THEN flood
                      ELSE IF ret' = "nil"
                          THEN [finished EXCEPT !.sent = @ \cup {destAddr}]
                      ELSE IF ErrorsIs(ret', CongestionWindowFullError) THEN flood
                      ELSE [finished EXCEPT !.failed = @ \cup {destAddr}]

InitSend ==
    /\ sleeping = {}
    /\ sendRet = NoSendRet

----------------------------------------------------------------------------
\* reconstruction: InMemoryReconstructor, OnDiskReconstructor; handler: MSG, FILE, FIN

\* the payload the sender put into the packet with number k
PayloadOf(k) == IF k % 2 = 0 THEN <<k>> ELSE <<k, k>>

NoDelivered == [kind |-> "none", addr |-> "none", content |-> <<>>, name |-> <<>>]

\* InMemoryReconstructor.HandleIncomingMsgPacket on the buffer buf
HandleIncomingMsgPacket(buf, pktNum, payload) == Put(buf, pktNum, payload)

\* the loop of FinishMsgPacketSequence over the sorted packet numbers
RECURSIVE AppendSorted(_, _)
AppendSorted(buf, seqNums) ==
    IF seqNums = {} THEN <<>>
    ELSE LET seqNum == MinOf(seqNums)
         IN buf[seqNum] \o AppendSorted(buf, seqNums \ {seqNum})

\* fault for C15: the payloads are appended in map order, here descending
FinishMsgUnsorted(buf) ==
    LET RECURSIVE Desc(_)
        Desc(S) == IF S = {} THEN <<>>
                   ELSE LET k == CHOOSE x \in S : \A y \in S : y <= x
                        IN buf[k] \o Desc(S \ {k})
    IN Desc(DOMAIN buf)
\* InMemoryReconstructor.FinishMsgPacketSequence
FinishMsgPacketSequence(buf) == AppendSorted(buf, DOMAIN buf)

\* InMemoryReconstructor.GetHighestPktNum
MsgGetHighestPktNum(buf) ==
    IF DOMAIN buf = {} THEN [err |-> "no packets buffered", pktNum |-> 0]
    ELSE [err |-> "nil", pktNum |-> CHOOSE x \in DOMAIN buf : \A y \in DOMAIN buf : y <= x]

\* NewOnDiskReconstructor; file is what has been written to the temporary file
NewOnDiskReconstructor ==
    [packetBuffer |-> EmptyMap, lowestPktNum |-> -1, highestWrittenPktNum |-> -1,
     highestUnwrittenPktNum |-> -1, file |-> <<>>]

\* OnDiskReconstructor.flushContiguousPayloads
RECURSIVE flushContiguousPayloads(_)
flushContiguousPayloads(r) ==
    LET i == r.highestWrittenPktNum + 1 IN
    IF i > r.highestUnwrittenPktNum \/ i \notin DOMAIN r.packetBuffer
        THEN r
        ELSE flushContiguousPayloads(
                [r EXCEPT !.file = @ \o r.packetBuffer[i],
                          !.packetBuffer = Del(@, i),
                          !.highestWrittenPktNum = i])

\* OnDiskReconstructor.flushRemainingPayloads, from packet number i on
RECURSIVE flushRemainingFrom(_, _)
flushRemainingFrom(r, i) ==
    IF i > r.highestUnwrittenPktNum THEN r
    ELSE IF i \notin DOMAIN r.packetBuffer THEN flushRemainingFrom(r, i + 1)
    ELSE flushRemainingFrom([r EXCEPT !.file = @ \o r.packetBuffer[i],
                                      !.packetBuffer = Del(@, i)], i + 1)
flushRemainingPayloads(r) == flushRemainingFrom(r, r.highestWrittenPktNum + 1)

\* OnDiskReconstructor.HandleIncomingFilePacket
HandleIncomingFilePacket(r, pktNum, payload) ==
    LET r1 == [r EXCEPT !.packetBuffer = Put(@, pktNum, payload)] IN
    IF r1.lowestPktNum < 0
        THEN [r1 EXCEPT !.lowestPktNum = pktNum, !.highestWrittenPktNum = pktNum]
        ELSE LET r2 == IF pktNum < r1.lowestPktNum
                           THEN [r1 EXCEPT !.lowestPktNum = pktNum,
                                           !.highestWrittenPktNum = pktNum]
                           ELSE r1
                 r3 == IF pktNum > r2.highestUnwrittenPktNum
                           THEN [r2 EXCEPT !.highestUnwrittenPktNum = pktNum]
                           ELSE r2
             IN flushContiguousPayloads(r3)

\* OnDiskReconstructor.FinishFilePacketSequence: the content of the file and the
\* name it is moved to; failed when the assertion on the metadata packet fails
FinishFilePacketSequence(r) ==
    LET r1 == flushRemainingPayloads(r)
        exists == r1.lowestPktNum \in DOMAIN r1.packetBuffer
    IN [failed |-> ~exists,
        content |-> r1.file,
        name |-> IF exists THEN r1.packetBuffer[r1.lowestPktNum] ELSE <<>>]

\* OnDiskReconstructor.GetHighestPktNum
FileGetHighestPktNum(r) ==
    IF r.highestUnwrittenPktNum < 0 THEN [err |-> "no packets buffered", pktNum |-> 0]
    ELSE [err |-> "nil", pktNum |-> r.highestUnwrittenPktNum]

\* what a handler does first with a packet from srcAddr for the local host:
\* IsDuplicatePacket, then return on an error or a duplicate
Admit(srcAddr, pktNum) ==
    LET d == DuplicateCheck(highestPktNum, futurePktNums, localAddr, srcAddr, pktNum) IN
    /\ ~panicked
    /\ highestPktNum' = d.highestPktNum
    /\ futurePktNums' = d.futurePktNums
    /\ arrived' = Arrive(arrived, highestPktNum, localAddr, srcAddr, pktNum)
    /\ inRet' = [peerAddr |-> srcAddr, seqNum |-> pktNum, dup |-> d.dup, err |-> d.err]

\* the handler goes on after IsDuplicatePacket
Admitted == inRet'.err = "nil" /\ ~inRet'.dup

\* a MSG packet for the local host: the payload is stored in the message
\* reconstructor of the source
handleMsg(srcAddr, pktNum) ==
    /\ Admit(srcAddr, pktNum)
    /\ IF Admitted
        THEN /\ msgReconstructors' = msgReconstructors \cup {srcAddr}
             /\ bufferedPayloads' = Put(bufferedPayloads, srcAddr,
                    HandleIncomingMsgPacket(Get(bufferedPayloads, srcAddr, EmptyMap),
                                            pktNum, PayloadOf(pktNum)))
        ELSE UNCHANGED <<msgReconstructors, bufferedPayloads>>
    /\ UNCHANGED <<fileReconstructors, onDisk, fileHandled, blocked, cleared, panicked>>
    /\ delivered' = NoDelivered

\* handleFileTransfer for a FILE packet for the local host
handleFileTransfer(srcAddr, pktNum) ==
    /\ Admit(srcAddr, pktNum)
    /\ IF Admitted
        THEN /\ fileReconstructors' = fileReconstructors \cup {srcAddr}
             /\ onDisk' = Put(onDisk, srcAddr,
                    HandleIncomingFilePacket(Get(onDisk, srcAddr, NewOnDiskReconstructor),
                                             pktNum, PayloadOf(pktNum)))
             /\ fileHandled' = Put(fileHandled, srcAddr,
                                   Get(fileHandled, srcAddr, {}) \cup {pktNum})
        ELSE UNCHANGED <<fileReconstructors, onDisk, fileHandled>>
    /\ UNCHANGED <<msgReconstructors, bufferedPayloads, blocked, cleared, panicked>>
    /\ delivered' = NoDelivered

\* handleFinish for a FIN packet for the local host whose payload holds lastPktNum;
\* lastPktNum = -1 stands for a payload shorter than 4 bytes
handleFinish(srcAddr, pktNum, lastPktNum) ==
    IF lastPktNum < 0
        THEN /\ ~panicked
             /\ UNCHANGED <<highestPktNum, futurePktNums, arrived, fileReconstructors,
                            msgReconstructors, bufferedPayloads, onDisk, fileHandled,
                            blocked, cleared, panicked>>
             /\ inRet' = NoInRet
             /\ delivered' = NoDelivered
        ELSE
    /\ Admit(srcAddr, pktNum)
    /\ UNCHANGED <<blocked, cleared>>
    /\ LET fileHighest == FileGetHighestPktNum(Get(onDisk, srcAddr, NewOnDiskReconstructor))
           msgHighest == MsgGetHighestPktNum(Get(bufferedPayloads, srcAddr, EmptyMap))
       IN
       IF ~Admitted
           THEN /\ UNCHANGED <<fileReconstructors, msgReconstructors, bufferedPayloads,
                               onDisk, fileHandled, panicked>>
                /\ delivered' = NoDelivered
       ELSE IF /\ srcAddr \in fileReconstructors
               /\ fileHighest.err = "nil" /\ fileHighest.pktNum = lastPktNum
           THEN LET f == FinishFilePacketSequence(onDisk[srcAddr]) IN
                /\ panicked' = f.failed
                /\ delivered' = IF f.failed THEN NoDelivered
                                 ELSE [kind |-> "FILE", addr |-> srcAddr,
                                       content |-> f.content, name |-> f.name]
                /\ IF f.failed
                    THEN UNCHANGED <<fileReconstructors, onDisk, fileHandled>>
                    ELSE /\ fileReconstructors' = ClearFileReconstructor(fileReconstructors, srcAddr)
                         /\ onDisk' = Del(onDisk, srcAddr)
                         /\ fileHandled' = Del(fileHandled, srcAddr)
                /\ UNCHANGED <<msgReconstructors, bufferedPayloads>>
       ELSE IF /\ srcAddr \in msgReconstructors
               /\ msgHighest.err = "nil" /\ msgHighest.pktNum = lastPktNum
           THEN /\ delivered' = [kind |-> "MSG", addr |-> srcAddr,
                                  content |-> FinishMsgPacketSequence(bufferedPayloads[srcAddr]),
                                  name |-> <<>>]
                /\ msgReconstructors' = ClearMsgReconstructor(msgReconstructors, srcAddr)
                /\ bufferedPayloads' = Del(bufferedPayloads, srcAddr)
                /\ UNCHANGED <<fileReconstructors, onDisk, fileHandled, panicked>>
       ELSE /\ UNCHANGED <<fileReconstructors, msgReconstructors, bufferedPayloads,
                           onDisk, fileHandled, panicked>>
            /\ delivered' = NoDelivered

InitRecon ==
    /\ bufferedPayloads = EmptyMap
    /\ onDisk = EmptyMap
    /\ fileHandled = EmptyMap
    /\ delivered = NoDelivered

----------------------------------------------------------------------------
\* sock: readLoop; handler: ListenToPackets

\* datagrams that arrive while the dispatch is examined; datagram 0 is no datagram
MaxDatagrams == 5
\* common.PACKET_HANDLER_GOROUTINES is 100; the dispatch only compares the number of
\* running handlers with it
PACKET_HANDLER_GOROUTINES == 2
\* capacity of the channel Subscribe makes
SubscriberCap == 1

\* readLoop: ReadFromUDP returns the next datagram, NotifyObservers offers it to the
\* subscriber channel without blocking
readLoop ==
    /\ received < MaxDatagrams
    /\ received' = received + 1
    /\ IF Len(subscriber) < SubscriberCap
        THEN subscriber' = Append(subscriber, received + 1) /\ UNCHANGED dropped
        ELSE dropped' = dropped \cup {received + 1} /\ UNCHANGED subscriber
    /\ UNCHANGED <<waiting, sem, excess>>

\* ListenToPackets: the range over the channel yields the next datagram
ListenReceive ==
    /\ waiting = 0
    /\ subscriber # <<>>
    /\ waiting' = Head(subscriber)
    /\ subscriber' = Tail(subscriber)
    /\ excess' = IF Cardinality(sem) = PACKET_HANDLER_GOROUTINES
                    THEN excess \cup {Head(subscriber)} ELSE excess
    /\ UNCHANGED <<received, sem, dropped>>

\* ListenToPackets: sem <- struct{}{} goes through once a slot is free, and the
\* goroutine of the datagram starts
ListenAcquire ==
    /\ waiting # 0
    /\ Cardinality(sem) < PACKET_HANDLER_GOROUTINES
    /\ sem' = sem \cup {waiting}
    /\ waiting' = 0
    /\ UNCHANGED <<received, subscriber, dropped, excess>>

\* the goroutine of datagram d: processPacket returns, <-sem releases the slot
HandlerReturns(d) ==
    /\ d \in sem
    /\ sem' = sem \ {d}
    /\ UNCHANGED <<received, subscriber, waiting, dropped, excess>>

----------------------------------------------------------------------------
\* pkt: Packet, SetChecksum, VerifyChecksum

\* longest payload of the packets examined
MaxPayloadLen == 3
\* the byte values the payloads are made of
PayloadBytes == {0, 1, 255}

\* Packet.ToByteArray
ToByteArray(p) ==
    p.Header.SourceAddr \o p.Header.DestAddr \o <<p.Header.Control, p.Header.TTL>>
        \o p.Header.Checksum \o p.Header.PktNum \o p.Payload

\* calculateChecksum: the sum of the 16-bit words of data from byte i on, added to the
\* uint32 sum; a last single byte is the high byte of its word
RECURSIVE SumWords(_, _, _)
SumWords(data, i, sum) ==
    IF i > Len(data) THEN sum
    ELSE IF i + 1 <= Len(data)
        THEN SumWords(data, i + 2, (sum + data[i] * 256 + data[i + 1]) % Uint32Span)
        ELSE SumWords(data, i + 2, (sum + data[i] * 256) % Uint32Span)

\* calculateChecksum: the fold of the 32-bit sum to 16 bits
RECURSIVE FoldSum(_)
FoldSum(sum) ==
    IF sum \div 65536 > 0 THEN FoldSum((sum % 65536) + (sum \div 65536)) ELSE sum

\* calculateChecksum
calculateChecksum(p) ==
    LET sum == FoldSum(SumWords(ToByteArray(p), 1, 0))
    IN <<(sum \div 256) % 256, sum % 256>>

\* fault for C23: the checksum is stored as it was summed
InvertNot(checksum) == checksum
\* SetChecksum: the inversion of the two checksum bytes
Invert(checksum) == <<255 - checksum[1], 255 - checksum[2]>>

\* the packet SetChecksum leaves
WithChecksum(p) ==
    LET cleared0 == [p EXCEPT !.Header.Checksum = <<0, 0>>]
    IN [p EXCEPT !.Header.Checksum = Invert(calculateChecksum(cleared0))]

\* SetChecksum(packet)
SetChecksum ==
    /\ packet' = WithChecksum(packet)
    /\ checksumSet' = TRUE
    /\ verifyRet' = <<>>

\* VerifyChecksum(packet)
VerifyChecksum ==
    /\ verifyRet' = <<calculateChecksum(packet) = <<255, 255>>>>
    /\ UNCHANGED <<packet, checksumSet>>

\* the packets examined: headers with any field values of the tests, of zeros and of
\* 0xff bytes, an arbitrary checksum field, payloads of every length up to MaxPayloadLen
Payloads == UNION {[1 .. n -> PayloadBytes] : n \in 0 .. MaxPayloadLen}
Packets ==
    [Header : [SourceAddr : {<<18, 52, 86, 120>>, <<0, 0, 0, 0>>, <<255, 255, 255, 255>>},
               DestAddr : {<<154, 188, 222, 240>>, <<0, 0, 0, 0>>, <<255, 255, 255, 255>>},
               Control : {0, 255},
               TTL : {0, 6},
               Checksum : {<<0, 0>>, <<171, 205>>},
               PktNum : {<<0, 0, 0, 0>>, <<255, 255, 255, 255>>}],
     Payload : Payloads]

\* no packet is examined
InitPkt ==
    /\ packet = [Header |-> [SourceAddr |-> <<0, 0, 0, 0>>, DestAddr |-> <<0, 0, 0, 0>>,
                             Control |-> 0, TTL |-> 0, Checksum |-> <<0, 0>>,
                             PktNum |-> <<0, 0, 0, 0>>],
                 Payload |-> <<>>]
    /\ checksumSet = FALSE
    /\ verifyRet = <<>>
\* any packet of Packets is examined
PktInputs ==
    /\ packet \in Packets
    /\ checksumSet = FALSE
    /\ verifyRet = <<>>

----------------------------------------------------------------------------
\* The mutexes Router.mu, OutgoingPktNumHandler.mu, IncomingPktNumHandler.seqMu and
\* PktSequenceReconstructor.mu, as the goroutines take them (routing/router.go,
\* sequencing/out.go, connection.SendReliableRoutedPacket)

Locks == {"router", "out", "in", "recon"}
\* the goroutine of a packet handler, of a command and of the callback of a timer
Tasks == {"handler", "cmd", "timer"}
Idle == [at |-> "idle"]
NoWrite == [by |-> "none", holding |-> {}]

HeldBy(t) == {holds[t][i] : i \in 1 .. Len(holds[t])}
Holders(lock) == {t \in Tasks : lock \in HeldBy(t)}
\* mu.Lock() returns once no goroutine holds the mutex
Free(lock) == Holders(lock) = {}
Lock(t, lock) == [holds EXCEPT ![t] = Append(@, lock)]
Unlock(t, lock) == [holds EXCEPT ![t] = SelectSeq(@, LAMBDA l : l # lock)]

\* the calls clearUnreachableHosts makes for the hosts it is given
RECURSIVE clearUnreachableHostsCalls(_)
clearUnreachableHostsCalls(unreachableHosts) ==
    IF unreachableHosts = {} THEN <<>>
    ELSE LET addr == CHOOSE a \in unreachableHosts : TRUE
         IN <<<<"lsdb", addr>>, <<"in", addr>>, <<"out", addr>>, <<"recon", addr>>>>
                \o clearUnreachableHostsCalls(unreachableHosts \ {addr})

\* Router.AddNeighbor(nextHop): r.mu is held from entry to return
LockedAddNeighbor(t, n) ==
    /\ task[t] = Idle /\ Free("router")
    /\ n \notin DOMAIN neighborTable
    /\ AddNeighbor(n)
    /\ UNCHANGED <<holds, task>>
    /\ wrote' = NoWrite

\* Router.RemoveNeighbor(addr) up to the call of clearUnreachableHosts: r.mu is
\* taken, the neighbor removed, the local LSA and the routing table rebuilt
LockedRemoveNeighbor(t, addr) ==
    /\ ~panicked
    /\ task[t] = Idle /\ Free("router")
    /\ addr \in DOMAIN neighborTable
    /\ LET nt1 == removeNeighbor(neighborTable, addr)
           l1 == recalculateLocalLSA(lsdb, nt1)
       IN \E b \in buildRoutingTable(l1, nt1) :
            /\ lsdb' = l1 /\ neighborTable' = nt1 /\ routingTable' = b.routingTable
            /\ routerRet' = [NoRouterRet EXCEPT !.op = "RemoveNeighbor",
                                                !.notRoutable = b.unreachableAddrs]
            /\ task' = [task EXCEPT ![t] =
                            [at |-> "clear",
                             todo |-> clearUnreachableHostsCalls(b.unreachableAddrs)]]
    /\ holds' = Lock(t, "router")
    /\ wrote' = NoWrite
    /\ UNCHANGED panicked

\* Router.UpdateLSA(srcAddr, seqNum, neighborAddresses) up to the call of
\* clearUnreachableHosts
LockedUpdateLSA(t, srcAddr, seqNum, neighborAddresses) ==
    /\ ~panicked
    /\ task[t] = Idle /\ Free("router")
    /\ srcAddr \notin neighborAddresses
    /\ LET l1 == updateLSA(lsdb, srcAddr, seqNum, neighborAddresses)
       IN \E b \in buildRoutingTable(l1, neighborTable) :
            /\ lsdb' = l1 /\ routingTable' = b.routingTable
            /\ routerRet' = [NoRouterRet EXCEPT !.op = "UpdateLSA",
                                                !.notRoutable = b.unreachableAddrs]
            /\ task' = [task EXCEPT ![t] =
                            [at |-> "clear",
                             todo |-> clearUnreachableHostsCalls(b.unreachableAddrs)]]
    /\ holds' = Lock(t, "router")
    /\ wrote' = NoWrite
    /\ UNCHANGED <<neighborTable, panicked>>

\* clearUnreachableHosts, with r.mu held: delete(r.lsdb, addr)
clearLsdbEntry(t) ==
    /\ task[t].at = "clear" /\ task[t].todo # <<>>
    /\ Head(task[t].todo)[1] = "lsdb"
    /\ lsdb' = Del(lsdb, Head(task[t].todo)[2])
    /\ task' = [task EXCEPT ![t].todo = Tail(@)]
    /\ routerRet' = NoRouterRet
    /\ wrote' = NoWrite
    /\ UNCHANGED <<holds, neighborTable, routingTable, panicked>>

\* clearUnreachableHosts, with r.mu held: the next of ClearIncomingPacketNumbers,
\* ClearPacketNumbers and ClearPayloadBuffer takes the mutex of its component
clearCallLocks(t) ==
    /\ task[t].at = "clear" /\ task[t].todo # <<>>
    /\ LET lock == Head(task[t].todo)[1]
       IN /\ lock \in Locks \ HeldBy(t)
          /\ Free(lock)
          /\ holds' = Lock(t, lock)
    /\ wrote' = NoWrite
    /\ UNCHANGED task

\* PktSequenceReconstructor.ClearPayloadBuffer(addr)
ClearPayloadBuffer(addr) == msgReconstructors' = msgReconstructors \ {addr}

\* ... and clears the state of the host and releases the mutex again
clearCallReturns(t) ==
    /\ task[t].at = "clear" /\ task[t].todo # <<>>
    /\ LET lock == Head(task[t].todo)[1]
           addr == Head(task[t].todo)[2]
       IN /\ lock \in HeldBy(t) \ {"router"}
          /\ holds' = Unlock(t, lock)
          /\ \/ /\ lock = "in"
                /\ ClearIncomingPacketNumbers(addr)
                /\ UNCHANGED <<outVars, msgReconstructors, panicked>>
             \/ /\ lock = "out"
                /\ ClearPacketNumbers(addr)
                /\ UNCHANGED <<inVars, msgReconstructors>>
             \/ /\ lock = "recon"
                /\ ClearPayloadBuffer(addr)
                /\ UNCHANGED <<outVars, inVars, panicked>>
    /\ task' = [task EXCEPT ![t].todo = Tail(@)]
    /\ wrote' = NoWrite

\* RemoveNeighbor and UpdateLSA return: the deferred r.mu.Unlock()
routerReturns(t) ==
    /\ task[t].at = "clear" /\ task[t].todo = <<>>
    /\ holds' = Unlock(t, "router")
    /\ task' = [task EXCEPT ![t] = Idle]
    /\ wrote' = NoWrite

\* BuildSequencedPacket(msgType, payload, destAddr): GetNextpacketNumber under h.mu
LockedBuild(t, a) ==
    /\ task[t] = Idle /\ Free("out")
    /\ GetNextpacketNumber(a)
    /\ task' = [task EXCEPT ![t] = [at |-> "built", addr |-> a,
                                    pktNum |-> Get(packetNumbers, a, 0)]]
    /\ wrote' = NoWrite
    /\ UNCHANGED holds

\* SendReliableRoutedPacket(packet): router.GetNextHop under r.mu; without a next hop
\* it returns the error
LockedGetNextHop(t) ==
    /\ task[t].at = "built" /\ Free("router")
    /\ task' = [task EXCEPT ![t] = IF GetNextHop(task[t].addr).found
                                      THEN [@ EXCEPT !.at = "register"]
                                      ELSE Idle]
    /\ wrote' = NoWrite
    /\ UNCHANGED holds

\* SendReliableRoutedPacket: AddOpenAck under h.mu and, once it has returned without
\* error, sendPacketTo; after the window error the caller sleeps and calls again
LockedAddOpenAck(t) ==
    /\ task[t].at = "register" /\ Free("out")
    /\ AddOpenAck(task[t].addr, task[t].pktNum)
    /\ IF ret' = "nil"
        THEN task' = [task EXCEPT ![t] = Idle] /\ wrote' = [by |-> t, holding |-> HeldBy(t)]
        ELSE UNCHANGED task /\ wrote' = NoWrite
    /\ UNCHANGED holds

\* handler/ack.go: the ACK of an open ack arrives, RemoveOpenAck under h.mu
LockedRemoveOpenAck(t, a, k) ==
    /\ task[t] = Idle /\ Free("out")
    /\ k \in DOMAIN Get(openAcks, a, EmptyMap)
    /\ RemoveOpenAck(a, k)
    /\ wrote' = NoWrite
    /\ UNCHANGED <<holds, task>>

\* handleAckTimeout(addr, pktNum, resendFunc) of a fired timer: h.mu.Lock() and the
\* test of the open ack; without the open ack it returns at once
ackTimeoutLocks(t, a, k) ==
    /\ task[t] = Idle /\ Free("out") /\ OutFree
    /\ CallbackCount(a, k) > 0
    /\ wrote' = NoWrite
    /\ IF k \in DOMAIN Get(openAcks, a, EmptyMap)
        THEN /\ holds' = Lock(t, "out")
             /\ task' = [task EXCEPT ![t] = [at |-> "resend", addr |-> a, pktNum |-> k]]
             /\ UNCHANGED <<outVars, panicked>>
        ELSE /\ handleAckTimeout(a, k)
             /\ UNCHANGED <<holds, task>>

\* resendFunc of SendReliableRoutedPacket, called by handleAckTimeout with h.mu
\* held: router.GetNextHop takes r.mu
resendLocksRouter(t) ==
    /\ task[t].at = "resend"
    /\ Free("router")
    /\ holds' = Lock(t, "router")
    /\ task' = [task EXCEPT ![t].at = "nexthop"]
    /\ wrote' = NoWrite

\* resendFunc: GetNextHop returns and releases r.mu; sendPacketTo if the host is
\* routable
resendWrites(t) ==
    /\ task[t].at = "nexthop"
    /\ holds' = Unlock(t, "router")
    /\ task' = [task EXCEPT ![t].at = "resent"]
    /\ wrote' = IF GetNextHop(task[t].addr).found
                    THEN [by |-> t, holding |-> HeldBy(t) \ {"router"}]
                    ELSE NoWrite

\* handleAckTimeout after resendFunc: the window, the retries, the timer and the
\* deferred h.mu.Unlock()
ackTimeoutReturns(t) ==
    /\ task[t].at = "resent"
    /\ handleAckTimeout(task[t].addr, task[t].pktNum)
    /\ holds' = Unlock(t, "out")
    /\ task' = [task EXCEPT ![t] = Idle]
    /\ wrote' = NoWrite

\* the mutex the task needs for its next step ("none": it needs none)
WaitsFor(t) ==
    CASE task[t].at = "clear" /\ task[t].todo # <<>>
            /\ Head(task[t].todo)[1] \in Locks \ HeldBy(t) -> Head(task[t].todo)[1]
      [] task[t].at = "built" -> "router"
      [] task[t].at = "register" -> "out"
      [] task[t].at = "resend" -> "router"
      [] OTHER -> "none"

\* NewRouter, NewOutgoingPktNumHandler, ...: no goroutine holds a mutex
InitLock ==
    /\ holds = [t \in Tasks |-> <<>>]
    /\ task = [t \in Tasks |-> Idle]
    /\ wrote = NoWrite

----------------------------------------------------------------------------
\* handler: handleMsg and handleFileTransfer step by step, one goroutine per packet

DataTypes == {"MSG", "FILE"}

\* handleMsg, handleFileTransfer for a packet for the local host: IsDuplicatePacket;
\* after an error the handler returns, a duplicate is acknowledged at once
receiveAdmit(msgType, srcAddr, pktNum) ==
    /\ Cardinality(receiving) < MaxHandlers
    /\ Admit(srcAddr, pktNum)
    /\ receiving' = IF Admitted
                        THEN receiving \cup {[msgType |-> msgType, srcAddr |-> srcAddr,
                                              pktNum |-> pktNum, at |-> "admitted"]}
                        ELSE receiving
    /\ ackSent' = IF inRet'.err = "nil" /\ inRet'.dup
                      THEN ackSent \cup {<<srcAddr, pktNum>>}
                      ELSE ackSent
    /\ UNCHANGED <<msgReconstructors, bufferedPayloads, fileReconstructors, onDisk,
                   fileHandled, panicked>>

\* handleMsg: sourcePeer.SendAcknowledgment(packet.Header.PktNum)
handleMsgAcks(g) ==
    /\ g \in receiving /\ g.msgType = "MSG" /\ g.at = "admitted"
    /\ ackSent' = ackSent \cup {<<g.srcAddr, g.pktNum>>}
    /\ receiving' = (receiving \ {g}) \cup {[g EXCEPT !.at = "acked"]}
    /\ UNCHANGED <<inVars, msgReconstructors, bufferedPayloads, fileReconstructors, onDisk,
                   fileHandled, panicked>>

\* handleMsg: reconstructor.HandleIncomingMsgPacket(packet, sourcePeer.Address)
handleMsgStores(g) ==
    /\ g \in receiving /\ g.msgType = "MSG" /\ g.at = "acked"
    /\ msgReconstructors' = msgReconstructors \cup {g.srcAddr}
    /\ bufferedPayloads' = Put(bufferedPayloads, g.srcAddr,
            HandleIncomingMsgPacket(Get(bufferedPayloads, g.srcAddr, EmptyMap),
                                    g.pktNum, PayloadOf(g.pktNum)))
    /\ receiving' = receiving \ {g}
    /\ UNCHANGED <<inVars, ackSent, fileReconstructors, onDisk, fileHandled, panicked>>

\* handleFileTransfer: GetFileReconstructor(srcAddr).HandleIncomingFilePacket(packet)
handleFileStores(g) ==
    /\ g \in receiving /\ g.msgType = "FILE" /\ g.at = "admitted"
    /\ fileReconstructors' = fileReconstructors \cup {g.srcAddr}
    /\ onDisk' = Put(onDisk, g.srcAddr,
            HandleIncomingFilePacket(Get(onDisk, g.srcAddr, NewOnDiskReconstructor),
                                     g.pktNum, PayloadOf(g.pktNum)))
    /\ fileHandled' = Put(fileHandled, g.srcAddr,
                          Get(fileHandled, g.srcAddr, {}) \cup {g.pktNum})
    /\ receiving' = (receiving \ {g}) \cup {[g EXCEPT !.at = "stored"]}
    /\ UNCHANGED <<inVars, ackSent, msgReconstructors, bufferedPayloads, panicked>>

\* handleFileTransfer: SendRoutedAcknowledgment(srcAddr, packet.Header.PktNum)
handleFileAcks(g) ==
    /\ g \in receiving /\ g.msgType = "FILE" /\ g.at = "stored"
    /\ ackSent' = ackSent \cup {<<g.srcAddr, g.pktNum>>}
    /\ receiving' = receiving \ {g}
    /\ UNCHANGED <<inVars, msgReconstructors, bufferedPayloads, fileReconstructors, onDisk,
                   fileHandled, panicked>>

\* no packet is being handled
InitReceive == receiving = {} /\ ackSent = {}

----------------------------------------------------------------------------
\* cmd: the send loops of the msg and file commands, step by step

\* pkt.MsgTypeFileTransfer
MsgTypeFileTransfer == "FILE"

\* most chunks of one message or file
MaxChunks == 2

\* the send loop of a stream that has just been started with n chunks to send
StartLoop(n) == [at |-> "chunk", left |-> n, pending |-> 0]

\* the stream with the id
StreamOf(id) == CHOOSE st \in streams : st.id = id

\* the errors SendReliableRoutedPacket can return for a packet to destAddr: without a
\* next hop the one of GetNextHop, else that of AddOpenAck (the window of the outgoing
\* tracker, which is not followed here) or of the write to the socket
SendOutcomes(destAddr) ==
    IF ~GetNextHop(destAddr).found
        THEN {"no next hop found for the destination address"}
        ELSE {"failed to add open acknowledgment"} \cup sendPacketTo

\* HandleSend with the message of n chunks
HandleSendMsg(peerIP, id, n) ==
    /\ HandleSend(peerIP, id)
    /\ loop' = IF streams' = streams THEN loop ELSE Put(loop, id, StartLoop(n))

\* HandleSendFile with the file of n chunks: Block, os.Stat, the metadata packet, and
\* the goroutine of sendFileChunks; every early return after Block calls Unblock
HandleSendFile(peerIP, id, n) ==
    /\ ~panicked
    /\ id \notin {st.id : st \in streams}
    /\ UNCHANGED <<fileReconstructors, msgReconstructors>>
    /\ cleared' = {}
    /\ LET b == [destinationAddr |-> peerIP, msgType |-> MsgTypeFileTransfer] IN
       \E stat \in {"nil", "no such file"}, err \in SendOutcomes(peerIP) :
           IF b \notin blocked /\ stat = "nil" /\ err = "nil"
               THEN /\ blocked' = blocked \cup {b}
                    /\ streams' = streams \cup {[id |-> id, destinationAddr |-> peerIP,
                                                 msgType |-> MsgTypeFileTransfer]}
                    /\ loop' = Put(loop, id, StartLoop(n))
               ELSE UNCHANGED <<blocked, streams, loop>>

\* a step of a send loop that is not its return touches no blocker
loopGoesOn ==
    /\ ~panicked
    /\ UNCHANGED <<blocked, fileReconstructors, msgReconstructors, streams>>
    /\ cleared' = {}

\* the chunk was handed to the tracker and the socket: the goroutine that waits for
\* its ackChan is started
chunkSent(id) == [loop EXCEPT ![id].at = "chunk", ![id].left = @ - 1, ![id].pending = @ + 1]

\* sendMsgChunks / sendFileChunks, loop body: BuildSequencedPacket and
\* SendReliableRoutedPacket for the next chunk; on an error sendMsgChunks goes to
\* its retry loop and sendFileChunks to its `for err != nil { continue }`
sendChunk(id) ==
    /\ id \in DOMAIN loop
    /\ loop[id].at = "chunk" /\ loop[id].left > 0
    /\ loopGoesOn
    /\ \E err \in SendOutcomes(StreamOf(id).destinationAddr) :
        loop' = IF err = "nil" THEN chunkSent(id)
                ELSE IF StreamOf(id).msgType = MsgTypeChatMessage
                    THEN [loop EXCEPT ![id].at = "retry"]
                    ELSE [loop EXCEPT ![id].at = "spin"]

\* sendMsgChunks, `for err != nil`: after SEQUENCE_RETRY_DELAY the packet is handed
\* to SendReliableRoutedPacket again
retryChunk(id) ==
    /\ id \in DOMAIN loop
    /\ loop[id].at = "retry"
    /\ loopGoesOn
    /\ \E err \in SendOutcomes(StreamOf(id).destinationAddr) :
        loop' = IF err = "nil" THEN chunkSent(id) ELSE loop

\* sendFileChunks, `for err != nil { logger.Debugf(...); continue }`: err is not
\* assigned in the loop
spinChunk(id) ==
    /\ id \in DOMAIN loop
    /\ loop[id].at = "spin"
    /\ loopGoesOn
    /\ loop' = loop

\* a goroutine of the loop receives from its ackChan (true on the ACK, false when the
\* retries are used up or the host was cleared) and calls wg.Done
chunkAckChan(id) ==
    /\ id \in DOMAIN loop
    /\ loop[id].pending > 0
    /\ loopGoesOn
    /\ loop' = [loop EXCEPT ![id].pending = @ - 1]

\* the deferred Unblock of the send loop's return
loopReturn(id) ==
    /\ sendChunksReturn(StreamOf(id))
    /\ loop' = Del(loop, id)

\* after the loop and wg.Wait: the FIN packet is built and handed to
\* SendReliableRoutedPacket; on an error sendMsgChunks retries, sendFileChunks returns
sendFin(id) ==
    /\ id \in DOMAIN loop
    /\ loop[id].at = "chunk" /\ loop[id].left = 0 /\ loop[id].pending = 0
    /\ \E err \in SendOutcomes(StreamOf(id).destinationAddr) :
        IF err = "nil"
            THEN loopGoesOn /\ loop' = [loop EXCEPT ![id].at = "finwait"]
            ELSE IF StreamOf(id).msgType = MsgTypeChatMessage
                THEN loopGoesOn /\ loop' = [loop EXCEPT ![id].at = "finretry"]
                ELSE loopReturn(id)

\* sendMsgChunks, `for err != nil` of the FIN
retryFin(id) ==
    /\ id \in DOMAIN loop
    /\ loop[id].at = "finretry"
    /\ loopGoesOn
    /\ \E err \in SendOutcomes(StreamOf(id).destinationAddr) :
        loop' = IF err = "nil" THEN [loop EXCEPT ![id].at = "finwait"] ELSE loop

\* `<-ackChan` of the FIN, then the return
finAckChan(id) ==
    /\ id \in DOMAIN loop
    /\ loop[id].at = "finwait"
    /\ loopReturn(id)

\* no send loop runs
InitLoop == loop = EmptyMap

----------------------------------------------------------------------------
\* handler/connect.go, cmd/connect.go: the CONN handshake of the local host, step by
\* step. The CONN, LSA and DD packets the handlers send are left to the outgoing
\* tracker, which these steps do not read.

\* handleConnect up to its ACK: the CONN packet pktNum with the header addresses
\* srcAddr and destAddr arrives from the host senderAddr. A duplicate is acknowledged
\* at once; a new packet is acknowledged when it is well-formed and srcAddr is no
\* neighbor, and its goroutine goes on to AddNeighbor
handleConnectReceive(srcAddr, senderAddr, destAddr, pktNum) ==
    /\ Cardinality(connecting) < MaxHandlers
    /\ IsDuplicatePacket(destAddr, srcAddr, pktNum)
    /\ LET valid == /\ inRet'.err = "nil" /\ ~inRet'.dup
                    /\ srcAddr = senderAddr
                    /\ destAddr = localAddr
                    /\ ~isNeighbor(neighborTable, srcAddr).ok
       IN /\ connAcked' = IF (inRet'.err = "nil" /\ inRet'.dup) \/ valid
                            THEN connAcked \cup {senderAddr} ELSE connAcked
          /\ connecting' = IF valid THEN connecting \cup {[srcAddr |-> srcAddr, pktNum |-> pktNum]}
                           ELSE connecting
    /\ UNCHANGED <<lsdb, neighborTable, routingTable, panicked, dialed>>
    /\ routerRet' = NoRouterRet

\* handleConnect from router.AddNeighbor on, for the goroutine g
handleConnectAdd(g) ==
    /\ g \in connecting
    /\ AddNeighbor(g.srcAddr)
    /\ connecting' = connecting \ {g}
    /\ UNCHANGED <<dialed, connAcked>>

\* connect (the con command): no CONN is sent to a neighbor; else the CONN is sent
\* and a goroutine waits for its ACK
connect(addr) ==
    /\ ~panicked
    /\ addr \notin dialed
    /\ dialed' = IF isNeighbor(neighborTable, addr).ok THEN dialed ELSE dialed \cup {addr}
    /\ UNCHANGED <<lsdb, neighborTable, routingTable, panicked, connecting, connAcked>>
    /\ routerRet' = NoRouterRet

\* the ACK of the CONN sent to addr arrives: handleConnectAck
handleConnectAck(addr) ==
    /\ addr \in dialed
    /\ AddNeighbor(addr)
    /\ dialed' = dialed \ {addr}
    /\ UNCHANGED <<connecting, connAcked>>

\* the CONN sent to addr is given up: SubscribeToReceivedAck yields false
connectFails(addr) ==
    /\ ~panicked
    /\ addr \in dialed
    /\ dialed' = dialed \ {addr}
    /\ UNCHANGED <<lsdb, neighborTable, routingTable, panicked, connecting, connAcked>>
    /\ routerRet' = NoRouterRet

\* no handshake is under way
InitConn == connecting = {} /\ dialed = {} /\ connAcked = {}

----------------------------------------------------------------------------
\* The exchange of LSAs and database descriptions between the local host and its
\* neighbor n2, which runs the same handlers; n4 lies behind n2. Every packet sent is
\* handled once by its receiver (no loss, no window that refuses a packet, no packet
\* number taken for a duplicate), at any later time.

\* the packets in flight
LSAPacket(owner, lsa) ==
    [type |-> "LSA", owner |-> owner, seqNum |-> lsa.SeqNum, neighbors |-> lsa.Neighbors]
DDPacket(owners) == [type |-> "DD", owners |-> owners]

\* SendDD: the payload lists router.GetAvailableLSAs()
SendDD(l) == DDPacket(DOMAIN l)

\* getMissingLSAs(existingEntries, router) on the LSDB l
getMissingLSAs(existingEntries, l) == (DOMAIN l) \ existingEntries

\* the FloodLSA calls of handleDatabaseDescription on the LSDB l, when the host has
\* the neighbor the packets go to
floodMissing(existingEntries, l, hasNeighbor) ==
    IF hasNeighbor THEN {LSAPacket(o, l[o]) : o \in getMissingLSAs(existingEntries, l)}
    ELSE {}

\* the next packet number the incoming tracker of the local host takes as new
NextFrom(peerAddr) == Get(highestPktNum, peerAddr, -1) + 1

\* highest sequence number of the LSA of the local host and of n2
MaxSyncSeqNum == 3
\* the link between the local host and n2 comes up at most this often
MaxLinkUps == 2

\* the handshake with n2 has completed on both sides (handleConnect on one,
\* handleConnectAck on the other): each adds the other as neighbor, floods its new
\* local LSA and sends its DD
linkUp ==
    /\ ~peerLinked /\ "n2" \notin DOMAIN neighborTable
    /\ linkUps < MaxLinkUps
    /\ getNextSequenceNumber(lsdb, localAddr) <= MaxSyncSeqNum
    /\ AddNeighbor("n2")
    /\ linkUps' = linkUps + 1
    /\ peerLinked' = TRUE
    /\ peerLsdb' = Put(peerLsdb, "n2",
                       LSAEntry(getNextSequenceNumber(peerLsdb, "n2"), {localAddr, "n4"}))
    /\ toPeer' = IF panicked' THEN toPeer
                 ELSE toPeer \cup {LSAPacket(localAddr, lsdb'[localAddr]), SendDD(lsdb')}
    /\ wire' = wire \cup {LSAPacket("n2", peerLsdb'["n2"]), SendDD(peerLsdb')}

\* the link to n2 goes down on both sides (handleDisconnect on one, disconnectFrom on
\* the other): RemoveNeighbor and ClearUnreachableHosts; for n2 the local host is
\* unreachable from then on. Packets sent before are still under way
linkDown ==
    /\ peerLinked
    /\ getNextSequenceNumber(lsdb, localAddr) <= MaxSyncSeqNum
    /\ Disconnect("n2")
    /\ peerLinked' = FALSE
    /\ peerLsdb' = Del(Put(peerLsdb, "n2",
                           LSAEntry(getNextSequenceNumber(peerLsdb, "n2"), {"n4"})),
                       localAddr)
    /\ UNCHANGED <<wire, toPeer, linkUps>>

\* a neighbor of n4 comes or goes: n2 stores the next LSA of n4 and floods it on
peerLSAChanges ==
    /\ ~panicked
    /\ peerLsdb["n4"].SeqNum < MaxSeqNum
    /\ LET lsa == LSAEntry(peerLsdb["n4"].SeqNum + 1,
                           IF peerLsdb["n4"].Neighbors = {"n2"} THEN {"n2", "n3"} ELSE {"n2"})
       IN /\ peerLsdb' = Put(peerLsdb, "n4", lsa)
          /\ wire' = IF peerLinked THEN wire \cup {LSAPacket("n4", lsa)} ELSE wire
    /\ UNCHANGED <<peerLinked, toPeer, linkUps>>

\* the local host handles the LSA packet p of n2: handleLSA
localHandlesLSA(p) ==
    /\ p \in wire /\ p.type = "LSA"
    /\ handleLSA("n2", NextFrom("n2"), p.owner, p.seqNum, p.neighbors)
    /\ wire' = wire \ {p}
    /\ UNCHANGED <<peerLsdb, peerLinked, toPeer, linkUps>>

\* the local host handles the DD packet p of n2: handleDatabaseDescription
handleDatabaseDescription(p) ==
    /\ p \in wire /\ p.type = "DD"
    /\ IsDuplicatePacket(localAddr, "n2", NextFrom("n2"))
    /\ toPeer' = toPeer \cup floodMissing(p.owners, lsdb, "n2" \in DOMAIN neighborTable)
    /\ wire' = wire \ {p}
    /\ UNCHANGED <<peerLsdb, peerLinked, linkUps>>

\* n2 handles the LSA packet p of the local host: handleLSA
peerHandlesLSA(p) ==
    /\ ~panicked
    /\ p \in toPeer /\ p.type = "LSA"
    /\ peerLsdb' = updateLSA(peerLsdb, p.owner, p.seqNum, p.neighbors)
    /\ toPeer' = toPeer \ {p}
    /\ UNCHANGED <<peerLinked, wire, linkUps>>

\* n2 handles the DD packet p of the local host: handleDatabaseDescription
peerHandlesDD(p) ==
    /\ ~panicked
    /\ p \in toPeer /\ p.type = "DD"
    /\ wire' = wire \cup floodMissing(p.owners, peerLsdb, peerLinked)
    /\ toPeer' = toPeer \ {p}
    /\ UNCHANGED <<peerLsdb, peerLinked, linkUps>>

\* n2 is connected to n4 and holds both LSAs; the local host is not connected
InitSync ==
    /\ peerLsdb = [o \in {"n2", "n4"} |->
                      IF o = "n2" THEN LSAEntry(0, {"n4"}) ELSE LSAEntry(0, {"n2"})]
    /\ peerLinked = FALSE
    /\ wire = {}
    /\ toPeer = {}
    /\ linkUps = 0

----------------------------------------------------------------------------
\* Specifications

\* NewUDPSocket, Subscribe, make(chan struct{}, PACKET_HANDLER_GOROUTINES)
InitDispatch ==
    /\ received = 0
    /\ subscriber = <<>>
    /\ waiting = 0
    /\ sem = {}
    /\ dropped = {}
    /\ excess = {}

\* the goroutines of the handlers, commands and timers have not started
InitTail == InitLoop /\ refloods = EmptyMap /\ InitConn /\ InitSync

InitLast == InitLock /\ InitReceive /\ InitTail

InitMore == InitDispatch /\ lsaParse = "none" /\ clearing = NoClearing /\ during = {}
            /\ produced = <<>> /\ InitLast

InitLate == checked = {} /\ applied = <<>> /\ streams = {} /\ InitMore

InitRest == InitSend /\ registered = {} /\ acked = {} /\ InitRecon /\ flood = NoFlood /\ InitLate

\* NewOutgoingPktNumHandler(common.INITIAL_CWND)
InitCwnd == initialCwnd = NarrowCwnd

Init == InitCwnd /\ InitOut /\ InitRouter /\ InitIn /\ InitHosts /\ InitRest /\ InitPkt

\* the outgoing tracker alone
NextOut ==
    /\ UNCHANGED initialCwnd
    /\ UNCHANGED <<routerVars, inVars, hostVars, restVars, flood>>
    /\ \E a \in OutAddrs :
        \/ GetNextpacketNumber(a)
        \/ ClearPacketNumbers(a)
        \/ CooldownElapses(a)
        \/ \E k \in PktNums :
            \/ AddOpenAck(a, k)
            \/ RemoveOpenAck(a, k)
            \/ TimerFire(a, k)
            \/ handleAckTimeout(a, k)

SpecOut == Init /\ [][NextOut]_vars

\* the outgoing tracker alone, constructed with a window of several packets
InitWide ==
    /\ initialCwnd = WideCwnd
    /\ InitOut /\ InitRouter /\ InitIn /\ InitHosts /\ InitRest /\ InitPkt
SpecWide == InitWide /\ [][NextOut]_vars

\* one router operation applied to every LSDB and neighbor table
NextRouter ==
    /\ UNCHANGED initialCwnd
    /\ UNCHANGED <<outVars, inVars, hostVars, restVars, flood>>
    /\ routerRet = NoRouterRet
    /\ \/ \E n \in Hosts \ {localAddr} : AddNeighbor(n)
       \/ \E n \in Hosts \ {localAddr} : RemoveNeighbor(n)
       \/ \E owner \in Hosts \ {localAddr}, seqNum \in SeqNums, neighborAddresses \in SUBSET Hosts :
            UpdateLSA(owner, seqNum, neighborAddresses)

\* a node whose router holds any of the inputs
InitRouterInputs == InitCwnd /\ InitOut /\ InitIn /\ InitHosts /\ InitRest /\ RouterInputs /\ InitPkt

SpecRouter == InitRouterInputs /\ [][NextRouter]_vars

\* the incoming tracker alone: packets from one peer, some not addressed to the local host
InPeers == {"n2"}
NextIn ==
    /\ UNCHANGED initialCwnd
    /\ UNCHANGED <<outVars, routerVars, hostVars, restVars, flood, panicked>>
    /\ \E peerAddr \in InPeers :
        \/ ClearIncomingPacketNumbers(peerAddr)
        \/ \E destAddr \in {localAddr, "n3"}, seqNum \in InPktNums :
                IsDuplicatePacket(destAddr, peerAddr, seqNum)

SpecIn == Init /\ [][NextIn]_vars

\* The node in the line n1 - n2 - n3: the LSA of a host lists the neighbor towards
\* n1, and the one away from it while that link is up.
LineLSAs == [n2 |-> {{"n1", "n3"}, {"n1"}}, n3 |-> {{"n2"}}]
\* the neighbor of the local host in the line
LineNeighbors == {"n2"}
\* the host beyond the neighbor that exchanges messages and files with the local host
LinePeers == {"n3"}
\* the local LSA may still take a sequence number of SeqNums
LocalSeqNumLeft == getNextSequenceNumber(lsdb, localAddr) <= MaxSeqNum

NextCleanup ==
    /\ UNCHANGED initialCwnd
    /\ UNCHANGED restVars
    /\ \/ /\ \E n \in LineNeighbors : LocalSeqNumLeft /\ AddNeighbor(n)
          /\ UNCHANGED <<outVars, highestPktNum, futurePktNums, arrived, blocked,
                         fileReconstructors, msgReconstructors>>
          /\ inRet' = NoInRet /\ cleared' = {}
          /\ UNCHANGED flood
       \/ /\ \E n \in LineNeighbors : LocalSeqNumLeft /\ Disconnect(n)
          /\ UNCHANGED flood
       \/ \E srcAddr \in LineNeighbors, pktNum \in 0 .. MaxLinePktNum, lsaOwnerAddr \in DOMAIN LineLSAs,
             seqNum \in SeqNums :
               \E neighborAddresses \in LineLSAs[lsaOwnerAddr] :
                   handleLSA(srcAddr, pktNum, lsaOwnerAddr, seqNum, neighborAddresses)
       \/ /\ \E peerAddr \in LinePeers : IsDuplicatePacket(localAddr, peerAddr, 0)
          /\ UNCHANGED <<outVars, lsdb, neighborTable, routingTable, blocked, fileReconstructors,
                         msgReconstructors, panicked>>
          /\ routerRet' = NoRouterRet /\ cleared' = {}
          /\ UNCHANGED flood
       \/ /\ \E a \in OutAddrs :
               \/ Get(packetNumbers, a, 0) < MaxLineSent /\ GetNextpacketNumber(a)
               \/ \E k \in PktNums : AddOpenAck(a, k)
          /\ UNCHANGED <<lsdb, neighborTable, routingTable, highestPktNum, futurePktNums, arrived,
                         blocked, fileReconstructors, msgReconstructors>>
          /\ routerRet' = NoRouterRet /\ inRet' = NoInRet /\ cleared' = {}
          /\ UNCHANGED flood
       \/ /\ \E addr \in LinePeers :
               \/ \E msgType \in MsgTypes : Block(addr, msgType)
               \/ GetOrCreateFileReconstructor(addr)
               \/ GetOrCreateMsgReconstructor(addr)
          /\ UNCHANGED <<outVars, lsdb, neighborTable, routingTable, highestPktNum, futurePktNums,
                         arrived, panicked>>
          /\ routerRet' = NoRouterRet /\ inRet' = NoInRet
          /\ UNCHANGED flood

SpecCleanup == Init /\ [][NextCleanup]_vars

\* Senders of packets to the neighbor n2, whose LSA arrives after the connect, and
\* the ACKs that come back
SendNeighbors == {"n2"}
NextSend ==
    /\ UNCHANGED initialCwnd
    /\ UNCHANGED <<inVars, hostVars, reconVars, flood, lateVars>>
    /\ \/ /\ \E n \in SendNeighbors :
                \/ AddNeighbor(n)
                \/ UpdateLSA(n, 0, {localAddr})
          /\ UNCHANGED <<outVars, sleeping, ackVars>>
          /\ sendRet' = NoSendRet
       \/ /\ \E a \in OutAddrs :
                \/ GetNextpacketNumber(a)
                \/ \E k \in PktNums : RemoveOpenAck(a, k)
          /\ UNCHANGED <<routerVars, sleeping, ackVars>>
          /\ sendRet' = NoSendRet
       \/ /\ \E a \in OutAddrs : \E k \in PktNums : SendReliableRoutedPacket(a, k)
          /\ UNCHANGED <<routerVars, ackVars>>

SpecSend == Init /\ [][NextSend]_vars

\* The outgoing tracker with the record of the packets that were acknowledged
NextAcked ==
    /\ UNCHANGED initialCwnd
    /\ UNCHANGED <<routerVars, inVars, hostVars, sendVars, reconVars, flood, lateVars>>
    /\ \E a \in OutAddrs :
        \/ GetNextpacketNumber(a) /\ UNCHANGED ackVars
        \/ /\ ClearPacketNumbers(a)
           /\ registered' = {x \in registered : x[1] # a}
           /\ acked' = {x \in acked : x[1] # a}
        \/ CooldownElapses(a) /\ UNCHANGED ackVars
        \/ \E k \in PktNums :
            \/ /\ AddOpenAck(a, k)
               /\ registered' = IF ret' = "nil" THEN registered \cup {<<a, k>>} ELSE registered
               /\ acked' = IF ret' = "nil" THEN acked \ {<<a, k>>} ELSE acked
            \/ /\ RemoveOpenAck(a, k)
               /\ acked' = IF k \in DOMAIN Get(openAcks, a, EmptyMap)
                               THEN acked \cup {<<a, k>>} ELSE acked
               /\ UNCHANGED registered
            \/ TimerFire(a, k) /\ UNCHANGED ackVars
            \/ handleAckTimeout(a, k) /\ UNCHANGED ackVars

SpecAcked == Init /\ [][NextAcked]_vars

\* The packets of one source arrive at the local host in any order, each a MSG chunk,
\* a FILE packet or a FIN
MaxReconPktNum == 4
ReconPeers == {"n3"}
NextRecon ==
    /\ UNCHANGED initialCwnd
    /\ UNCHANGED <<outVars, routerVars, sendVars, ackVars, flood, lateVars>>
    /\ \E srcAddr \in ReconPeers, pktNum \in 0 .. MaxReconPktNum :
        \/ handleMsg(srcAddr, pktNum)
        \/ handleFileTransfer(srcAddr, pktNum)
        \/ \E lastPktNum \in -1 .. MaxReconPktNum : handleFinish(srcAddr, pktNum, lastPktNum)

SpecRecon == Init /\ [][NextRecon]_vars

\* The local host with the neighbors n2 and n3: LSAs of n4 arrive from either, are
\* flooded on, and the ACKs of the flooded packets come back
FloodNeighbors == {"n2", "n3"}
FloodLSAs == [n4 |-> {{"n2"}, {"n2", "n3"}}]
NextFlood ==
    /\ UNCHANGED initialCwnd
    /\ UNCHANGED restVars
    /\ \/ /\ \E n \in FloodNeighbors : LocalSeqNumLeft /\ AddNeighbor(n)
          /\ UNCHANGED <<outVars, inVars, hostVars, flood>>
       \/ \E srcAddr \in FloodNeighbors, pktNum \in 0 .. MaxLinePktNum,
             lsaOwnerAddr \in DOMAIN FloodLSAs, seqNum \in SeqNums :
               \E neighborAddresses \in FloodLSAs[lsaOwnerAddr] :
                   handleLSA(srcAddr, pktNum, lsaOwnerAddr, seqNum, neighborAddresses)
       \/ /\ \/ \E destAddr \in FloodNeighbors : FloodLSABuild(destAddr)
             \/ FloodLSASend
          /\ UNCHANGED <<routerVars, inVars, hostVars>>
       \/ /\ \E a \in FloodNeighbors, k \in PktNums : RemoveOpenAck(a, k)
          /\ UNCHANGED <<routerVars, inVars, hostVars, flood>>

SpecFlood == Init /\ [][NextFlood]_vars

\* The node in the line n1 - n2 - n3 with one goroutine per LSA packet received
Handlers ==
    [srcAddr : LineNeighbors, lsaOwnerAddr : DOMAIN LineLSAs, seqNum : SeqNums,
     neighborAddresses : UNION {LineLSAs[o] : o \in DOMAIN LineLSAs}]
NextLSA ==
    /\ UNCHANGED initialCwnd
    /\ UNCHANGED <<sendVars, ackVars, reconVars, streams, moreVars>>
    /\ \/ /\ \E n \in LineNeighbors : LocalSeqNumLeft /\ AddNeighbor(n)
          /\ UNCHANGED <<outVars, highestPktNum, futurePktNums, arrived, blocked,
                         fileReconstructors, msgReconstructors, flood, checked>>
          /\ inRet' = NoInRet /\ cleared' = {} /\ applied' = <<>>
       \/ /\ \E n \in LineNeighbors : LocalSeqNumLeft /\ Disconnect(n)
          /\ UNCHANGED <<flood, checked>>
          /\ applied' = <<>>
       \/ \E srcAddr \in LineNeighbors, pktNum \in 0 .. MaxLinePktNum, lsaOwnerAddr \in DOMAIN LineLSAs,
             seqNum \in SeqNums :
               \E neighborAddresses \in LineLSAs[lsaOwnerAddr] :
                   handleLSAReceive(srcAddr, pktNum, lsaOwnerAddr, seqNum, neighborAddresses)
       \/ \E g \in Handlers : handleLSAApply(g)

SpecLSA == Init /\ [][NextLSA]_vars

\* The node in the line n1 - n2 - n3 whose router operations and cleanups run beside
\* the handlers of packets from n3 and the senders of packets to n2 and n3
NextAtomic ==
    /\ UNCHANGED initialCwnd
    /\ UNCHANGED <<sendVars, ackVars, reconVars, flood, checked, applied, streams,
                   dispatchVars, lsaParse, pktVars, produced, lastVars>>
    /\ \/ /\ \E n \in LineNeighbors :
                LocalSeqNumLeft /\ clearing.todo = <<>> /\ AddNeighbor(n)
          /\ UNCHANGED <<outVars, highestPktNum, futurePktNums, arrived, blocked,
                         fileReconstructors, msgReconstructors>>
          /\ inRet' = NoInRet /\ cleared' = {} /\ clearing' = NoClearing /\ during' = {}
       \/ \E n \in LineNeighbors : LocalSeqNumLeft /\ DisconnectRemove(n)
       \/ \E srcAddr \in LineNeighbors, pktNum \in 0 .. MaxLinePktNum,
             lsaOwnerAddr \in DOMAIN LineLSAs, seqNum \in SeqNums :
               \E neighborAddresses \in LineLSAs[lsaOwnerAddr] :
                   handleLSAUpdate(srcAddr, pktNum, lsaOwnerAddr, seqNum, neighborAddresses)
       \/ ClearNext
       \/ /\ \E peerAddr \in LinePeers :
                IsDuplicatePacket(localAddr, peerAddr, 0) /\ Uses("in", peerAddr)
          /\ UNCHANGED <<outVars, lsdb, neighborTable, routingTable, blocked, fileReconstructors,
                         msgReconstructors, panicked>>
          /\ routerRet' = NoRouterRet /\ cleared' = {}
       \/ /\ \E a \in OutAddrs :
                /\ Get(packetNumbers, a, 0) < MaxLineSent
                /\ GetNextpacketNumber(a)
                /\ Uses("out", a)
          /\ UNCHANGED <<lsdb, neighborTable, routingTable, highestPktNum, futurePktNums, arrived,
                         blocked, fileReconstructors, msgReconstructors>>
          /\ routerRet' = NoRouterRet /\ inRet' = NoInRet /\ cleared' = {}
       \/ /\ \E addr \in LinePeers :
               \/ \E msgType \in MsgTypes : Block(addr, msgType) /\ Uses("blocker", addr)
               \/ GetOrCreateFileReconstructor(addr) /\ Uses("file", addr)
               \/ GetOrCreateMsgReconstructor(addr) /\ Uses("msg", addr)
          /\ UNCHANGED <<outVars, lsdb, neighborTable, routingTable, highestPktNum, futurePktNums,
                         arrived, panicked>>
          /\ routerRet' = NoRouterRet /\ inRet' = NoInRet

SpecAtomic == Init /\ [][NextAtomic]_vars

\* The local host n1 with the neighbor n2, from which LSAs of every host arrive: also
\* LSAs that do not list the local host, and the LSA of the local host itself as the
\* network holds it from an earlier time
LocalLSAs == [n1 |-> {{"n3"}}, n2 |-> {{"n3"}, {}}, n3 |-> {{"n1"}}]
\* highest packet number of the LSA packets received
MaxLocalPktNum == 2
\* local LSAs produced while the local host is examined
MaxProduced == 3
\* the local host may still connect or disconnect
LocalLSAsLeft == LocalSeqNumLeft /\ Len(produced) < MaxProduced
NextLocal ==
    /\ UNCHANGED initialCwnd
    /\ UNCHANGED <<sendVars, ackVars, reconVars, checked, applied, streams, dispatchVars,
                   lsaParse, pktVars, atomVars, lastVars>>
    /\ \/ /\ \E n \in LineNeighbors : LocalLSAsLeft /\ AddNeighbor(n)
          /\ UNCHANGED <<outVars, highestPktNum, futurePktNums, arrived, blocked,
                         fileReconstructors, msgReconstructors, flood>>
          /\ inRet' = NoInRet /\ cleared' = {}
          /\ produced' = Append(produced, getNextSequenceNumber(lsdb, localAddr))
       \/ /\ \E n \in LineNeighbors : LocalLSAsLeft /\ Disconnect(n)
          /\ UNCHANGED flood
          /\ produced' = Append(produced, getNextSequenceNumber(lsdb, localAddr))
       \/ /\ \E srcAddr \in LineNeighbors, pktNum \in 0 .. MaxLocalPktNum,
                lsaOwnerAddr \in DOMAIN LocalLSAs, seqNum \in SeqNums :
                  \E neighborAddresses \in LocalLSAs[lsaOwnerAddr] :
                      handleLSA(srcAddr, pktNum, lsaOwnerAddr, seqNum, neighborAddresses)
          /\ UNCHANGED produced

SpecLocal == Init /\ [][NextLocal]_vars

\* The node in the line n1 - n2 - n3 whose user sends messages to n2 and n3 while the
\* link to n2 comes and goes
NextBlock ==
    /\ UNCHANGED initialCwnd
    /\ UNCHANGED <<sendVars, ackVars, reconVars, checked, applied, moreVars>>
    /\ \/ /\ \E n \in LineNeighbors : LocalSeqNumLeft /\ AddNeighbor(n)
          /\ UNCHANGED <<outVars, highestPktNum, futurePktNums, arrived, blocked,
                         fileReconstructors, msgReconstructors, flood, streams>>
          /\ inRet' = NoInRet /\ cleared' = {}
       \/ /\ \E n \in LineNeighbors : LocalSeqNumLeft /\ Disconnect(n)
          /\ UNCHANGED <<flood, streams>>
       \/ /\ \E srcAddr \in LineNeighbors, pktNum \in 0 .. MaxLinePktNum,
                lsaOwnerAddr \in DOMAIN LineLSAs, seqNum \in SeqNums :
                  \E neighborAddresses \in LineLSAs[lsaOwnerAddr] :
                      handleLSA(srcAddr, pktNum, lsaOwnerAddr, seqNum, neighborAddresses)
          /\ UNCHANGED streams
       \/ /\ \/ \E peerIP \in LineNeighbors \cup LinePeers, id \in 1 .. MaxStreams :
                   HandleSend(peerIP, id)
             \/ \E st \in streams : sendChunksReturn(st)
          /\ UNCHANGED <<outVars, lsdb, neighborTable, routingTable, highestPktNum, futurePktNums,
                         arrived, panicked, flood>>
          /\ routerRet' = NoRouterRet /\ inRet' = NoInRet

SpecBlock == Init /\ [][NextBlock]_vars

\* The socket's read loop, the dispatch loop and the handler goroutines
NextDispatch ==
    /\ UNCHANGED initialCwnd
    /\ UNCHANGED <<outVars, routerVars, inVars, hostVars, sendVars, ackVars, reconVars,
                   checked, applied, streams, flood, panicked, lsaParse, pktVars, atomVars, produced, lastVars>>
    /\ \/ readLoop
       \/ ListenReceive
       \/ ListenAcquire
       \/ \E d \in 1 .. MaxDatagrams : HandlerReturns(d)

SpecDispatch == Init /\ [][NextDispatch]_vars

\* the payload of the LSA of owner with sequence number seqNum and the neighbors nbrs
RECURSIVE EncodeAddrs(_)
EncodeAddrs(nbrs) ==
    IF nbrs = {} THEN <<>>
    ELSE LET n == CHOOSE x \in nbrs : TRUE IN IPv4(n) \o EncodeAddrs(nbrs \ {n})
EncodeLSA(owner, seqNum, nbrs) == IPv4(owner) \o PutUint32(seqNum) \o EncodeAddrs(nbrs)
\* the LSAs sent to the local host: n2 with both links, n2 after it lost n3, and n3
SentLSAs == {<<"n2", 0, {"n1", "n3"}>>, <<"n2", 1, {"n1"}>>, <<"n3", 0, {"n2"}>>}
\* the payloads received: those LSAs, whole or cut off after any byte
LSAPayloads ==
    UNION {{SubSeq(EncodeLSA(l[1], l[2], l[3]), 1, n) :
                n \in 0 .. Len(EncodeLSA(l[1], l[2], l[3]))} : l \in SentLSAs}

\* The node in the line n1 - n2 - n3 that receives LSA packets of any length
NextParse ==
    /\ UNCHANGED initialCwnd
    /\ UNCHANGED <<sendVars, ackVars, reconVars, checked, applied, streams, dispatchVars,
                   pktVars, atomVars, produced, lastVars>>
    /\ \/ /\ \E n \in LineNeighbors : LocalSeqNumLeft /\ AddNeighbor(n)
          /\ UNCHANGED <<outVars, highestPktNum, futurePktNums, arrived, blocked,
                         fileReconstructors, msgReconstructors, flood>>
          /\ inRet' = NoInRet /\ cleared' = {} /\ lsaParse' = "none"
       \/ \E srcAddr \in LineNeighbors, pktNum \in 0 .. MaxLinePktNum, payload \in LSAPayloads :
               handleLSAPacket(srcAddr, pktNum, payload)

SpecParse == Init /\ [][NextParse]_vars

\* SetChecksum and VerifyChecksum on any packet
InitPktInputs == InitCwnd /\ InitOut /\ InitRouter /\ InitIn /\ InitHosts /\ InitRest /\ PktInputs
NextChecksum ==
    /\ UNCHANGED initialCwnd
    /\ UNCHANGED <<outVars, routerVars, inVars, hostVars, sendVars, ackVars, reconVars,
                   checked, applied, streams, flood, panicked, dispatchVars, lsaParse, atomVars, produced, lastVars>>
    /\ \/ SetChecksum
       \/ VerifyChecksum

SpecChecksum == InitPktInputs /\ [][NextChecksum]_vars

\* The node n1 beside n2 and n3: packet handlers that apply DIS and LSA packets,
\* commands that connect and send, ACKs that arrive and timers that fire, each
\* goroutine taking the mutexes as its code does
LockNeighbors == {"n2"}
LockLSAs == [n2 |-> {{"n1"}, {"n1", "n3"}}, n3 |-> {{"n2"}}]
\* packets sent while the mutexes are examined
MaxLockPktNum == 2
NextLock ==
    /\ UNCHANGED initialCwnd
    /\ UNCHANGED <<sendVars, ackVars, reconVars, flood, checked, applied, streams,
                   dispatchVars, lsaParse, pktVars, atomVars, produced, recvVars, tailVars>>
    /\ UNCHANGED <<blocked, fileReconstructors, cleared>>
    /\ \/ /\ \/ \E n \in LockNeighbors : LocalSeqNumLeft /\ LockedAddNeighbor("cmd", n)
             \/ \E addr \in LockNeighbors :
                    LocalSeqNumLeft /\ LockedRemoveNeighbor("handler", addr)
             \/ \E srcAddr \in DOMAIN LockLSAs, seqNum \in SeqNums :
                    \E neighborAddresses \in LockLSAs[srcAddr] :
                        /\ neighborTable # EmptyMap
                        /\ LockedUpdateLSA("handler", srcAddr, seqNum, neighborAddresses)
             \/ clearLsdbEntry("handler")
          /\ UNCHANGED <<outVars, inVars, msgReconstructors>>
       \/ /\ clearCallLocks("handler")
          /\ UNCHANGED <<outVars, inVars, msgReconstructors, lsdb, neighborTable,
                         routingTable, panicked>>
          /\ routerRet' = NoRouterRet
       \/ /\ clearCallReturns("handler")
          /\ UNCHANGED <<lsdb, neighborTable, routingTable>>
          /\ routerRet' = NoRouterRet
       \/ /\ \/ routerReturns("handler")
             \/ LockedGetNextHop("cmd")
             \/ resendLocksRouter("timer")
             \/ resendWrites("timer")
          /\ UNCHANGED <<outVars, inVars, msgReconstructors, lsdb, neighborTable,
                         routingTable, panicked>>
          /\ routerRet' = NoRouterRet
       \/ /\ \/ \E a \in OutAddrs :
                    Get(packetNumbers, a, 0) < MaxLockPktNum /\ LockedBuild("cmd", a)
             \/ LockedAddOpenAck("cmd")
             \/ \E a \in OutAddrs, k \in PktNums : LockedRemoveOpenAck("handler", a, k)
             \/ \E a \in OutAddrs, k \in PktNums :
                    TimerFire(a, k) /\ wrote' = NoWrite /\ UNCHANGED <<holds, task>>
             \/ \E a \in OutAddrs, k \in PktNums : ackTimeoutLocks("timer", a, k)
             \/ ackTimeoutReturns("timer")
          /\ UNCHANGED <<inVars, msgReconstructors, lsdb, neighborTable, routingTable>>
          /\ routerRet' = NoRouterRet

SpecLock == Init /\ [][NextLock]_vars


\* The chunks of a message and of a file arrive from n3, some of them twice, and are
\* handled by concurrent goroutines
MaxAckPktNum == 2
Receivers ==
    [msgType : DataTypes, srcAddr : ReconPeers, pktNum : 0 .. MaxAckPktNum,
     at : {"admitted", "acked", "stored"}]
NextReceive ==
    /\ UNCHANGED initialCwnd
    /\ UNCHANGED <<outVars, routerVars, sendVars, ackVars, flood, checked, applied, streams,
                   dispatchVars, lsaParse, pktVars, atomVars, produced, lockVars, tailVars>>
    /\ UNCHANGED <<blocked, cleared>>
    /\ delivered' = NoDelivered
    /\ \/ \E msgType \in DataTypes, srcAddr \in ReconPeers, pktNum \in 0 .. MaxAckPktNum :
            receiveAdmit(msgType, srcAddr, pktNum)
       \/ \E g \in Receivers :
            \/ handleMsgAcks(g)
            \/ handleMsgStores(g)
            \/ handleFileStores(g)
            \/ handleFileAcks(g)

SpecReceive == Init /\ [][NextReceive]_vars


\* The msg and file commands with their send loops, while the neighbor n2 comes and
\* goes; n3 is a host no route leads to
StreamIds == 1 .. MaxStreams
StreamFrame ==
    /\ UNCHANGED initialCwnd
    /\ UNCHANGED <<sendVars, ackVars, reconVars, checked, applied, dispatchVars, lsaParse,
                   pktVars, atomVars, produced, lockVars, recvVars, refloods, connVars,
                   syncVars>>

\* the steps of the send loop of the stream id
LoopStep(id) ==
    /\ StreamFrame
    /\ \/ sendChunk(id)
       \/ retryChunk(id)
       \/ spinChunk(id)
       \/ chunkAckChan(id)
       \/ sendFin(id)
       \/ retryFin(id)
       \/ finAckChan(id)
    /\ UNCHANGED <<outVars, lsdb, neighborTable, routingTable, highestPktNum, futurePktNums,
                   arrived, panicked, flood>>
    /\ routerRet' = NoRouterRet /\ inRet' = NoInRet

NextStream ==
    \/ /\ StreamFrame
       /\ \E n \in LineNeighbors : LocalSeqNumLeft /\ AddNeighbor(n)
       /\ UNCHANGED <<outVars, highestPktNum, futurePktNums, arrived, blocked,
                      fileReconstructors, msgReconstructors, flood, streams, loop>>
       /\ inRet' = NoInRet /\ cleared' = {}
    \/ /\ StreamFrame
       /\ \E n \in LineNeighbors : LocalSeqNumLeft /\ Disconnect(n)
       /\ UNCHANGED <<flood, streams, loop>>
    \/ /\ StreamFrame
       /\ \E peerIP \in LineNeighbors \cup LinePeers, id \in StreamIds, n \in 1 .. MaxChunks :
             \/ HandleSendMsg(peerIP, id, n)
             \/ HandleSendFile(peerIP, id, n)
       /\ UNCHANGED <<outVars, lsdb, neighborTable, routingTable, highestPktNum, futurePktNums,
                      arrived, panicked, flood>>
       /\ routerRet' = NoRouterRet /\ inRet' = NoInRet
    \/ \E id \in StreamIds : LoopStep(id)

\* every goroutine of a send loop is scheduled again and again, and every ackChan
\* receives its value (the ACK, the last expiry of the timer or the clearing of the host)
FairStream == \A id \in StreamIds : WF_vars(LoopStep(id))

SpecStream == Init /\ [][NextStream]_vars /\ FairStream


\* The local host with the neighbors n2 and n3, which both flood the LSAs of n4 to it:
\* one goroutine per LSA packet, the loop of FloodLSA, and the ACKs of the flooded
\* packets
RefloodLSAs == [n4 |-> {{"n2", "n3"}}]
\* highest packet number of an LSA packet of a neighbor
MaxRefloodPktNum == 1
RefloodHandlers ==
    [srcAddr : FloodNeighbors, lsaOwnerAddr : DOMAIN RefloodLSAs, seqNum : SeqNums,
     neighborAddresses : UNION {RefloodLSAs[o] : o \in DOMAIN RefloodLSAs}]

\* handleLSA from its UpdateLSA on; a FloodLSA that has a neighbor to send to is counted
handleLSAFloods(g) ==
    /\ handleLSAApply(g)
    /\ refloods' = IF flood'.remaining # {}
                     THEN Put(refloods, <<g.lsaOwnerAddr, flood'.seqNum>>,
                              Get(refloods, <<g.lsaOwnerAddr, flood'.seqNum>>, 0) + 1)
                     ELSE refloods

NextReflood ==
    /\ UNCHANGED initialCwnd
    /\ UNCHANGED <<sendVars, ackVars, reconVars, streams, dispatchVars, lsaParse, pktVars,
                   atomVars, produced, lockVars, recvVars, loop, connVars, syncVars>>
    /\ \/ /\ \E n \in FloodNeighbors : LocalSeqNumLeft /\ AddNeighbor(n)
          /\ UNCHANGED <<outVars, highestPktNum, futurePktNums, arrived, blocked,
                         fileReconstructors, msgReconstructors, flood, checked, refloods>>
          /\ inRet' = NoInRet /\ cleared' = {} /\ applied' = <<>>
       \/ /\ \E srcAddr \in FloodNeighbors, pktNum \in 0 .. MaxRefloodPktNum,
                lsaOwnerAddr \in DOMAIN RefloodLSAs, seqNum \in SeqNums :
                  \E neighborAddresses \in RefloodLSAs[lsaOwnerAddr] :
                      handleLSAReceive(srcAddr, pktNum, lsaOwnerAddr, seqNum, neighborAddresses)
          /\ UNCHANGED refloods
       \/ \E g \in RefloodHandlers : handleLSAFloods(g)
       \/ /\ \/ \E destAddr \in FloodNeighbors : FloodLSABuild(destAddr)
             \/ FloodLSASend
          /\ UNCHANGED <<routerVars, inVars, hostVars, checked, refloods>>
          /\ applied' = <<>>
       \/ /\ \E a \in FloodNeighbors, k \in PktNums : RemoveOpenAck(a, k)
          /\ UNCHANGED <<routerVars, inVars, hostVars, flood, checked, refloods>>
          /\ applied' = <<>>

SpecReflood == Init /\ [][NextReflood]_vars


\* The local host and the peer n2: CONN packets of n2 (also with a header source
\* other than their sender), the local con command, the ACKs of n2, disconnects,
\* and the LSA of n2
ConnPeers == {"n2"}
ConnSenders == {"n2", "n3"}
ConnLSAs == [n2 |-> {{"n1"}}]
\* highest packet number of a packet of the peer
MaxConnPktNum == 1
NextConn ==
    /\ UNCHANGED initialCwnd
    /\ UNCHANGED <<sendVars, ackVars, reconVars, checked, applied, streams, dispatchVars,
                   lsaParse, pktVars, atomVars, produced, lockVars, recvVars, loop, refloods,
                   syncVars>>
    /\ \/ /\ \E srcAddr \in ConnPeers, senderAddr \in ConnSenders,
                destAddr \in {localAddr, "n4"}, pktNum \in 0 .. MaxConnPktNum :
                  handleConnectReceive(srcAddr, senderAddr, destAddr, pktNum)
          /\ UNCHANGED <<outVars, hostVars, flood>>
       \/ /\ \E g \in connecting : LocalSeqNumLeft /\ handleConnectAdd(g)
          /\ UNCHANGED <<outVars, highestPktNum, futurePktNums, arrived, blocked,
                         fileReconstructors, msgReconstructors, flood>>
          /\ inRet' = NoInRet /\ cleared' = {}
       \/ /\ \E addr \in ConnPeers :
                \/ connect(addr)
                \/ LocalSeqNumLeft /\ handleConnectAck(addr)
                \/ connectFails(addr)
          /\ UNCHANGED <<outVars, highestPktNum, futurePktNums, arrived, blocked,
                         fileReconstructors, msgReconstructors, flood>>
          /\ inRet' = NoInRet /\ cleared' = {}
       \/ /\ \E n \in ConnPeers :
                /\ LocalSeqNumLeft /\ Disconnect(n)
                /\ connAcked' = connAcked \ {n}
          /\ UNCHANGED <<flood, connecting, dialed>>
       \/ /\ \E srcAddr \in ConnPeers, pktNum \in 0 .. MaxConnPktNum,
                lsaOwnerAddr \in DOMAIN ConnLSAs, seqNum \in SeqNums :
                  \E neighborAddresses \in ConnLSAs[lsaOwnerAddr] :
                      handleLSA(srcAddr, pktNum, lsaOwnerAddr, seqNum, neighborAddresses)
          /\ UNCHANGED connVars

SpecConn == Init /\ [][NextConn]_vars


\* The local host and n2 connect and disconnect, the LSA of n4 changes, and each
\* side handles the packets of the other
SyncFrame ==
    /\ UNCHANGED initialCwnd
    /\ UNCHANGED <<sendVars, ackVars, reconVars, checked, applied, streams, dispatchVars,
                   lsaParse, pktVars, atomVars, produced, lockVars, recvVars, loop, refloods,
                   connVars>>

\* the local host handles the packet p
LocalHandles(p) ==
    /\ SyncFrame
    /\ \/ localHandlesLSA(p)
       \/ /\ handleDatabaseDescription(p)
          /\ UNCHANGED <<outVars, lsdb, neighborTable, routingTable, panicked, hostVars, flood>>
          /\ routerRet' = NoRouterRet

\* n2 handles the packet p
PeerHandles(p) ==
    /\ SyncFrame
    /\ \/ peerHandlesLSA(p)
       \/ peerHandlesDD(p)
    /\ UNCHANGED <<outVars, routerVars, inVars, hostVars, flood, panicked>>

\* a handler goroutine of the local host, of n2, takes a packet
LocalReceives == \E p \in wire : LocalHandles(p)
PeerReceives == \E p \in toPeer : PeerHandles(p)

NextSync ==
    \/ /\ SyncFrame
       /\ linkUp
       /\ UNCHANGED <<outVars, highestPktNum, futurePktNums, arrived, blocked,
                      fileReconstructors, msgReconstructors, flood>>
       /\ inRet' = NoInRet /\ cleared' = {}
    \/ /\ SyncFrame
       /\ linkDown
       /\ UNCHANGED flood
    \/ /\ SyncFrame
       /\ peerLSAChanges
       /\ UNCHANGED <<outVars, routerVars, inVars, hostVars, flood, panicked>>
    \/ LocalReceives
    \/ PeerReceives

\* every packet sent is handled by its receiver: the handlers of a host keep taking
\* packets while there are any
FairSync == WF_vars(LocalReceives) /\ WF_vars(PeerReceives)

SpecSync == Init /\ [][NextSync]_vars /\ FairSync

----------------------------------------------------------------------------
\* Properties of the outgoing tracker (checked under SpecOut)

IsOpen(a, k) == k \in DOMAIN Get(openAcks, a, EmptyMap)
\* the timer of the open ack (a, k) is running and will fire
TimerRunning(a, k) == IsOpen(a, k) /\ openAcks[a][k].timer = "armed"

\* C1: for every destination, every packet number k that has an open ack satisfies
\* highest_acked_contiguous < k <= highest_acked_contiguous + cwnd.
C1_OpenAcksInWindow ==
    \A a \in DOMAIN openAcks : \A k \in DOMAIN openAcks[a] :
        LET highestAcked == Get(highestAckedContiguousPktNum, a, -1)
            cw == Get(cwnd, a, initialCwnd)
        IN highestAcked < k /\ k <= highestAcked + cw

\* C7: while an open ack stays registered (no ACK, destination not cleared), each
\* timer expiry handled for it before the RETRIES_PER_PACKET-th keeps it registered
\* and completes nothing; the RETRIES_PER_PACKET-th removes it and completes its
\* waiter with false.
C7_RemovedAfterRetriesExpiries ==
    [][\A a \in OutAddrs : \A k \in PktNums :
        (handleAckTimeout(a, k) /\ IsOpen(a, k)) =>
            IF expiries[a][k] + 1 = RETRIES_PER_PACKET
                THEN /\ ~IsOpen(a, k)'
                     /\ observed' = {[addr |-> a, pktNum |-> k, notified |-> FALSE, got |-> FALSE]}
                ELSE /\ expiries[a][k] + 1 < RETRIES_PER_PACKET
                     /\ IsOpen(a, k)'
                     /\ expiries'[a][k] = expiries[a][k] + 1
                     /\ observed' = {}]_vars

\* C7 happens: the last expiry has removed an open ack of a destination that was not
\* cleared, and its waiter read false
C7_Witness ==
    \E o \in observed :
        /\ ~o.notified /\ ~o.got
        /\ o.addr \in DOMAIN packetNumbers
        /\ ~IsOpen(o.addr, o.pktNum)

\* C8: when an ACK removes a registered open ack, the caller waiting on the channel
\* AddOpenAck returned reads true.
C8_AckObservedTrue == \A o \in observed : o.notified => o.got

\* C9: ClearPacketNumbers(addr) completes every waiter pending for addr with false
\* and leaves no open ack (hence no running timer), packet counter, cwnd, ssthresh,
\* accumulator or highest-acked value for addr.
C9_ClearLeavesNothing ==
    [][\A a \in OutAddrs :
        ClearPacketNumbers(a) =>
            /\ observed' = {[addr |-> a, pktNum |-> k, notified |-> FALSE, got |-> FALSE] :
                                k \in DOMAIN Get(openAcks, a, EmptyMap)}
            /\ \A k \in PktNums : ~IsOpen(a, k)'
            /\ \A k \in PktNums : ~TimerRunning(a, k)'
            /\ a \notin DOMAIN packetNumbers'
            /\ a \notin DOMAIN cwnd'
            /\ a \notin DOMAIN ssthresh'
            /\ a \notin DOMAIN cAvoidanceAcc'
            /\ a \notin DOMAIN highestAckedContiguousPktNum']_vars

\* C9 happens: a destination with two pending waiters has been cleared
C9_Witness ==
    /\ Cardinality(observed) = 2
    /\ \A o \in observed : ~o.notified /\ ~o.got /\ o.addr \notin DOMAIN packetNumbers

\* C10: AddOpenAck for packet number k fails with the congestion-window-full error
\* exactly when k - highest_acked_contiguous > cwnd; a failed call registers no open
\* ack and starts no timer.
C10_CwndFullExactly ==
    [][\A a \in OutAddrs : \A k \in PktNums :
        (AddOpenAck(a, k) /\ ~panicked') =>
            LET highestAcked == Get(highestAckedContiguousPktNum, a, -1)
                cw == Get(cwnd, a, initialCwnd)
            IN /\ ret' \in {"cwnd_full", "nil"}
               /\ (ret' = "cwnd_full") <=> (k - highestAcked > cw)
               /\ (ret' = "cwnd_full") =>
                      /\ openAcks' = openAcks
                      /\ callbacks' = callbacks
                      /\ ~TimerRunning(a, k)'
               /\ (ret' = "nil") => TimerRunning(a, k)']_vars

\* C10 happens: an AddOpenAck has failed on a full window, another has succeeded
C10_Witness == ret = "cwnd_full" /\ \E a \in DOMAIN openAcks : DOMAIN openAcks[a] # {}

----------------------------------------------------------------------------
\* Properties of the router (checked under SpecRouter)

\* the LSDB hosts other than the local one that are direct neighbors
FirstHops(l, nt) == {a \in (DOMAIN l) \ {localAddr} : a \in DOMAIN nt}

\* hop counts from the hosts of S (at 0) over the neighbor lists of the LSDB,
\* through hosts that have an LSA and are not the local one
RECURSIVE HopsLevels(_, _, _, _)
HopsLevels(l, frontier, hops, d) ==
    IF frontier = {} THEN hops
    ELSE LET hops1 == [a \in (DOMAIN hops) \cup frontier |->
                            IF a \in DOMAIN hops THEN hops[a] ELSE d]
             next == {b \in (DOMAIN l) \ ({localAddr} \cup DOMAIN hops1) :
                            \E a \in frontier : b \in l[a].Neighbors}
         IN HopsLevels(l, next, hops1, d + 1)
HopsFrom(l, S) == HopsLevels(l, S, EmptyMap, 0)

\* rt is a minimum-hop next-hop table of LSDB l and neighbor table nt, and
\* notRoutable the LSDB hosts that cannot be reached
ShortestPathTable(l, nt, rt, notRoutable) ==
    LET hops == HopsFrom(l, FirstHops(l, nt)) IN
    /\ DOMAIN rt = DOMAIN hops
    /\ \A v \in DOMAIN rt :
        \E n \in FirstHops(l, nt) :
            /\ rt[v] = nt[n].NextHop
            /\ v \in DOMAIN HopsFrom(l, {n})
            /\ HopsFrom(l, {n})[v] = hops[v]
    /\ notRoutable = (DOMAIN l) \ ({localAddr} \cup DOMAIN hops)

TopologyUpdate ==
    /\ routerRet.op = "none" /\ routerRet'.op # "none"
    /\ ~(routerRet'.op = "AddNeighbor" /\ neighborTable' = neighborTable)

\* hosts with an LSA that a search from r over the neighbor lists of the LSDB visits
\* without entering lsaOwner
RECURSIVE SearchFrom(_, _, _, _)
SearchFrom(l, lsaOwner, frontier, seen) ==
    IF frontier = {} THEN seen
    ELSE LET seen1 == seen \cup frontier
             next == {b \in (DOMAIN l) \ (seen1 \cup {lsaOwner}) :
                            \E a \in frontier : b \in l[a].Neighbors}
         IN SearchFrom(l, lsaOwner, next, seen1)
CutOff(l, lsaOwner, r) == SearchFrom(l, lsaOwner, {r} \cap DOMAIN l, {})

\* C3: when an update removes exactly one neighbor r from the LSA of lsaOwner and
\* r is not routable afterwards, the reported unreachable set is exactly the hosts
\* with an LSA that a BFS from r visits without going back through lsaOwner.
C3_UnreachableIsBFS ==
    [][\A lsaOwner \in Hosts : \A r \in Hosts \ {localAddr} :
        LET old == Get(lsdb, lsaOwner, ZeroLSA).Neighbors
            new == Get(lsdb', lsaOwner, ZeroLSA).Neighbors
        IN (/\ TopologyUpdate
            /\ r \in old /\ new = old \ {r}
            /\ r \notin DOMAIN routingTable') =>
                /\ ~panicked'
                /\ routerRet'.unreachableHosts = CutOff(lsdb', lsaOwner, r)]_vars

\* C3 happens: in the line n1-n2-n3-n4, n2 has dropped n3 and {n3, n4} was reported
C3_Witness ==
    /\ routerRet.op = "UpdateLSA" /\ routerRet.removedNeighbor = "n3"
    /\ DOMAIN neighborTable = {"n2"}
    /\ DOMAIN lsdb = Hosts
    /\ lsdb["n2"].Neighbors = {"n1"}
    /\ lsdb["n3"].Neighbors = {"n2", "n4"}
    /\ lsdb["n4"].Neighbors = {"n3"}
    /\ routerRet.unreachableHosts = {"n3", "n4"}

\* C4: when an update removes no neighbor from the owner's list, or every removed
\* neighbor is still routable after the rebuild, the reported unreachable set is empty.
C4_NothingReported ==
    [][\A lsaOwner \in Hosts :
        LET old == Get(lsdb, lsaOwner, ZeroLSA).Neighbors
            new == Get(lsdb', lsaOwner, ZeroLSA).Neighbors
        IN (/\ TopologyUpdate
            /\ lsaOwner = IF routerRet'.op = "UpdateLSA" THEN lsaOwner ELSE localAddr
            /\ \A h \in Hosts \ {lsaOwner} : Get(lsdb', h, ZeroLSA) = Get(lsdb, h, ZeroLSA)
            /\ \A r \in old \ new : r \in DOMAIN routingTable') =>
                /\ ~panicked'
                /\ routerRet'.unreachableHosts = {}]_vars

\* C4 happens: in the ring n1-n2-n3-n4-n1, n2 has dropped n3, which is still routable
C4_Witness ==
    /\ routerRet.op = "UpdateLSA" /\ routerRet.removedNeighbor = "n3"
    /\ DOMAIN neighborTable = {"n2", "n4"}
    /\ DOMAIN lsdb = Hosts
    /\ lsdb["n2"].Neighbors = {"n1"}
    /\ lsdb["n3"].Neighbors = {"n2", "n4"}
    /\ lsdb["n4"].Neighbors = {"n1", "n3"}
    /\ "n3" \in DOMAIN routingTable
    /\ routerRet.unreachableHosts = {} /\ ~panicked

----------------------------------------------------------------------------
\* Properties of the cleanup (checked under SpecCleanup)

\* no state of any kind is held for host u
NoStateOf(u) ==
    /\ StateOf(lsdb, highestPktNum, futurePktNums, u) = {}
    /\ u \notin DOMAIN cwnd
    /\ u \notin DOMAIN ssthresh
    /\ u \notin DOMAIN cAvoidanceAcc
    /\ u \notin DOMAIN highestAckedContiguousPktNum

\* C5: when RemoveNeighbor or UpdateLSA has reported the unreachable set U and
\* ClearUnreachableHosts has run on it, every host of U has no LSDB entry, no incoming
\* packet-number state, no outgoing state (counter, open acks, congestion window), no
\* message or file reconstructor and no sequence blocker.
C5_UnreachableHostsCleared ==
    (routerRet.op \in {"RemoveNeighbor", "UpdateLSA"} /\ ~panicked) =>
        \A u \in routerRet.unreachableHosts : NoStateOf(u)

\* C5 happens: the disconnect from n2 has reported {n2, n3} and the cleanup has
\* removed state of every kind
C5_Witness ==
    /\ routerRet.op = "RemoveNeighbor" /\ ~panicked
    /\ routerRet.unreachableHosts = {"n2", "n3"}
    /\ {<<"lsdb", "n2">>, <<"lsdb", "n3">>, <<"in", "n2">>, <<"in", "n3">>, <<"out", "n2">>,
        <<"openAck", "n2">>, <<"blocker", "n3">>, <<"file", "n3">>, <<"msg", "n3">>}
            \subseteq cleared

----------------------------------------------------------------------------
\* Properties of the incoming tracker (checked under SpecIn)

\* C6: a packet number received from a source within the receiver window is reported
\* NEW when it has not been received from that source before and DUPLICATE when it
\* has, whatever the order of arrival.
C6_NewThenDuplicate ==
    [][\A peerAddr \in InPeers : \A seqNum \in InPktNums :
        (/\ IsDuplicatePacket(localAddr, peerAddr, seqNum)
         /\ seqNum - Get(highestPktNum, peerAddr, -1) <= RECEIVE_BUFFER_SIZE) =>
            /\ inRet'.err = "nil"
            /\ inRet'.dup <=> seqNum \in Get(arrived, peerAddr, {})]_vars

\* C6 happens: a packet number stored out of order has come again and was reported
\* DUPLICATE, after the numbers up to 1 had come
C6_Witness ==
    /\ inRet.dup /\ inRet.err = "nil"
    /\ inRet.peerAddr \in DOMAIN futurePktNums
    /\ inRet.seqNum \in futurePktNums[inRet.peerAddr]
    /\ Get(highestPktNum, inRet.peerAddr, -1) = 1

\* C12: the handling of a timer expiry performs the multiplicative decrease
\* (ssthresh = max(cwnd/2, 2), cwnd = max(cwnd/2, initialCwnd), accumulator = 0) only
\* when it is the first expiry of the packet and more than ACK_TIMEOUT_DURATION has
\* passed since the last congestion event of the destination; every other expiry
\* leaves cwnd and ssthresh unchanged; after a decrease cwnd >= initialCwnd and
\* ssthresh >= 2.
C12_DecreaseOnFirstExpiryOnly ==
    [][\A a \in OutAddrs : \A k \in PktNums :
        handleAckTimeout(a, k) =>
            LET firstExpiry == IsOpen(a, k) /\ expiries[a][k] = 0
                longAgo == a \notin DOMAIN lastCongestionEventTime
                               \/ lastCongestionEventTime[a] = "elapsed"
                cw == Get(cwnd, a, 0)
            IN IF firstExpiry /\ longAgo
                THEN /\ ssthresh'[a] = (IF cw \div 2 >= 2 THEN cw \div 2 ELSE 2)
                     /\ cwnd'[a] = (IF cw \div 2 >= initialCwnd THEN cw \div 2 ELSE initialCwnd)
                     /\ cAvoidanceAcc'[a] = 0
                     /\ cwnd'[a] >= initialCwnd
                     /\ ssthresh'[a] >= 2
                ELSE cwnd' = cwnd /\ ssthresh' = ssthresh]_vars

\* C12 happens: two packets have had their first expiry, the second within the
\* cooldown of the decrease the first one caused
C12_Witness ==
    \E a \in DOMAIN lastCongestionEventTime :
        /\ lastCongestionEventTime[a] = "recent"
        /\ \E k1, k2 \in PktNums :
                /\ k1 # k2 /\ IsOpen(a, k1) /\ IsOpen(a, k2)
                /\ expiries[a][k1] = 1 /\ expiries[a][k2] = 1
        /\ cwnd[a] = initialCwnd /\ ssthresh[a] = 2

\* cwnd and accumulator after n ACKs that each remove an open ack, from cw, ss, accu
RECURSIVE AfterAcks(_, _, _, _)
AfterAcks(cw, ss, accu, n) ==
    IF n = 0 THEN [cwnd |-> cw, acc |-> accu]
    ELSE LET g == GrowCwnd(cw, ss, accu) IN AfterAcks(g.cwnd, ss, g.acc, n - 1)

\* C13: in congestion avoidance (cwnd >= ssthresh) an ACK that removes an open ack
\* adds 1 to the accumulator; exactly when the accumulator thereby reaches cwnd, cwnd
\* grows by 1 and the accumulator is reset to 0, otherwise cwnd is unchanged. From
\* cwnd = 2, ssthresh = 1: two ACKs give cwnd = 3, accumulator 0; two more cwnd = 3,
\* accumulator 2; one more cwnd = 4, accumulator 0.
C13_AvoidanceGrowth ==
    [][/\ \A a \in OutAddrs : \A k \in PktNums :
            (RemoveOpenAck(a, k) /\ IsOpen(a, k) /\ ~hung') =>
                LET cw == Get(cwnd, a, 0)
                    ss == Get(ssthresh, a, MathMaxInt64)
                    accu == Get(cAvoidanceAcc, a, 0)
                IN cw >= ss =>
                    IF accu + 1 = cw
                        THEN cwnd'[a] = cw + 1 /\ cAvoidanceAcc'[a] = 0
                        ELSE cwnd'[a] = cw /\ cAvoidanceAcc'[a] = accu + 1
       /\ AfterAcks(2, 1, 0, 2) = [cwnd |-> 3, acc |-> 0]
       /\ AfterAcks(2, 1, 0, 4) = [cwnd |-> 3, acc |-> 2]
       /\ AfterAcks(2, 1, 0, 5) = [cwnd |-> 4, acc |-> 0]]_vars

\* C13 happens: an ACK in congestion avoidance has just made the accumulator reach
\* cwnd = 2, and cwnd has grown to 3
C13_Witness ==
    /\ \E o \in observed : o.notified
    /\ \E a \in DOMAIN ssthresh :
            ssthresh[a] = 2 /\ cwnd[a] = 3 /\ cAvoidanceAcc[a] = 0

\* C14: after the packets 0 .. n-1 have been sent to a destination and an ACK has
\* arrived for every one of them, in any order, highestAckedContiguousPktNum is n-1
\* and the destination has no open ack.
C14_AllAckedHighest ==
    \A a \in DOMAIN packetNumbers :
        LET n == packetNumbers[a] IN
        (/\ ~hung /\ ~panicked
         /\ n >= 1
         /\ Get(built, a, {}) = {}
         /\ {k \in PktNums : <<a, k>> \in registered} = 0 .. (n - 1)
         /\ \A k \in 0 .. (n - 1) : <<a, k>> \in acked) =>
            /\ Get(highestAckedContiguousPktNum, a, 0) = n - 1
            /\ DOMAIN Get(openAcks, a, EmptyMap) = {}

\* C14 happens: three packets have been sent and acknowledged, the ACK of packet 2
\* arriving before that of packet 1
C14_Witness ==
    \E a \in DOMAIN packetNumbers :
        /\ packetNumbers[a] = 3
        /\ \A k \in 0 .. 2 : <<a, k>> \in acked
        /\ observed = {[addr |-> a, pktNum |-> 1, notified |-> TRUE, got |-> TRUE]}
        /\ highestAckedContiguousPktNum[a] = 2

----------------------------------------------------------------------------
\* Properties of the connection facade (checked under SpecSend)

\* C11: when AddOpenAck reports that the congestion window is full,
\* SendReliableRoutedPacket returns no error to its caller: it sleeps and retries.
C11_CwndFullRetried ==
    [][\A a \in OutAddrs : \A k \in PktNums :
        (SendReliableRoutedPacket(a, k) /\ ret' = "cwnd_full") =>
            /\ sendRet'.err = "none"
            /\ <<a, k>> \in sleeping']_vars

\* C11 happens: a call met a full window while another packet was in flight
C11_Witness ==
    /\ ret = "cwnd_full"
    /\ sendRet.addr \in OutAddrs
    /\ \E a \in DOMAIN openAcks : DOMAIN openAcks[a] # {}

----------------------------------------------------------------------------
\* Properties of the reconstructors and handleFinish (checked under SpecRecon)

\* the payloads of buf for the packet numbers S, lowest number first
RECURSIVE InOrder(_, _)
InOrder(buf, S) ==
    IF S = {} THEN <<>>
    ELSE LET last == CHOOSE x \in S : \A y \in S : y <= x
         IN InOrder(buf, S \ {last}) \o buf[last]

C16_FileInOrder ==
    [][\A srcAddr \in ReconPeers : \A pktNum, lastPktNum \in 0 .. MaxReconPktNum :
        (/\ handleFinish(srcAddr, pktNum, lastPktNum)
         /\ delivered'.kind = "FILE"
         /\ \A k \in fileHandled[srcAddr] : k <= lastPktNum) =>
            LET stream == fileHandled[srcAddr]
                metadata == MinOf(stream)
                payloads == [k \in stream |-> PayloadOf(k)]
            IN /\ delivered'.content = InOrder(payloads, stream \ {metadata})
               /\ delivered'.name = PayloadOf(metadata)]_vars

\* C16 case: a file of the packets 0 .. 3 has been finished
C16_Witness ==
    /\ delivered.kind = "FILE"
    /\ delivered.name = PayloadOf(0)
    /\ Len(delivered.content) = Len(PayloadOf(1)) + Len(PayloadOf(2)) + Len(PayloadOf(3))

----------------------------------------------------------------------------
\* Properties of the flooding (checked under SpecFlood)

\* C17: a non-duplicate LSA with a newer sequence number received from neighbor A is
\* sent on reliably to every current neighbor other than A, and not to A.
C17_FloodedToAllButSender ==
    (flood # NoFlood /\ FloodDone /\ flood.except \in DOMAIN neighborTable) =>
        /\ flood.sent = flood.targets
        /\ flood.except \notin flood.sent

\* C17 case: the LSA received from n2 has been sent on to n3 alone
C17_Witness ==
    /\ FloodDone
    /\ flood.except = "n2"
    /\ DOMAIN neighborTable = {"n2", "n3"}
    /\ flood.sent = {"n3"}

----------------------------------------------------------------------------
\* Properties of the LSDB under concurrent LSA handlers (checked under SpecLSA)

----------------------------------------------------------------------------
\* Properties of the routing-table build for neighbors without LSA (checked under
\* SpecRouter)

\* C19: after a routing-table build every direct neighbor is routable at distance 1
\* through its own next hop, even when no LSA owned by that neighbor is in the LSDB.
C19_NeighborsRoutable ==
    (routerRet.op # "none" /\ ~panicked) =>
        \A n \in DOMAIN neighborTable :
            /\ n \in DOMAIN routingTable
            /\ routingTable[n] = neighborTable[n].NextHop

\* C19 case: a build with two neighbors, one of them without LSA; the one whose LSA
\* is in the LSDB is routable through its own next hop
C19_Witness ==
    /\ routerRet.op # "none"
    /\ ~panicked
    /\ DOMAIN neighborTable = {"n2", "n3"}
    /\ "n2" \in DOMAIN lsdb
    /\ "n3" \notin DOMAIN lsdb
    /\ "n2" \in DOMAIN routingTable
    /\ routingTable["n2"] = neighborTable["n2"].NextHop

----------------------------------------------------------------------------
\* Properties of the reported unreachable set on any LSDB (checked under SpecRouter)

\* C26: whatever the LSDB holds, stale and asymmetric neighbor lists included, every
\* host a topology update reports as unreachable is not routable after the rebuild:
\* neither the local address nor a host with a routing-table entry is reported.
C26_ReportedNotRoutable ==
    (routerRet.op # "none" /\ ~panicked) =>
        \A u \in routerRet.unreachableHosts :
            /\ u # localAddr
            /\ u \notin DOMAIN routingTable

\* C26 case: on asymmetric neighbor lists an update has reported hosts, none of them
\* routable or local, while other hosts stay routable
C26_Witness ==
    /\ routerRet.op = "UpdateLSA" /\ ~panicked
    /\ routerRet.unreachableHosts # {}
    /\ routerRet.unreachableHosts \cap (DOMAIN routingTable \cup {localAddr}) = {}
    /\ routingTable # EmptyMap
    /\ \E a \in DOMAIN lsdb : \E b \in lsdb[a].Neighbors :
            b \in DOMAIN lsdb /\ a \notin lsdb[b].Neighbors

----------------------------------------------------------------------------
\* Properties of the sequence blocker (checked under SpecBlock)

\* C20: at any moment at most one stream of a message type is in flight to a
\* destination: Block on a (dest, msg_type) pair returns true only if the pair is not
\* owned, and while the stream that acquired it is still sending no other Block on
\* the pair succeeds.
C20_OneStreamPerPair ==
    \A s1 \in streams, s2 \in streams :
        (s1.destinationAddr = s2.destinationAddr /\ s1.msgType = s2.msgType) => s1 = s2

\* C20 case: the streams of messages to n2 and to n3 are being sent, each pair is
\* blocked and has one stream
C20_Witness ==
    /\ {b.destinationAddr : b \in blocked} = {"n2", "n3"}
    /\ {st.destinationAddr : st \in streams} = {"n2", "n3"}
    /\ Cardinality(streams) = 2

----------------------------------------------------------------------------
\* Properties of the packet dispatch (checked under SpecDispatch)

\* C21: when all PACKET_HANDLER_GOROUTINES handler slots are occupied, a newly
\* received datagram is dropped; the dispatch loop does not wait for a free slot.
C21_ExcessDropped ==
    /\ excess \subseteq dropped
    /\ ~(waiting # 0 /\ Cardinality(sem) = PACKET_HANDLER_GOROUTINES)

\* C21 case: two handlers run and the dispatch loop has received a third datagram
C21_Witness ==
    /\ Cardinality(sem) = PACKET_HANDLER_GOROUTINES
    /\ waiting # 0
    /\ waiting \in excess

----------------------------------------------------------------------------
\* Properties of the LSA payload parser (checked under SpecParse)

\* C22: an LSA packet whose payload is shorter than 8 bytes or whose length is not a
\* multiple of 4 is rejected as malformed: the handler returns without changing the
\* LSDB, the neighbor table or the routing table, and without crashing.
C22_MalformedLSARejected ==
    [][\A srcAddr \in LineNeighbors, pktNum \in 0 .. MaxLinePktNum, payload \in LSAPayloads :
          (/\ Len(payload) < 8 \/ Len(payload) % 4 # 0
           /\ handleLSAPacket(srcAddr, pktNum, payload))
              => /\ lsdb' = lsdb
                 /\ neighborTable' = neighborTable
                 /\ routingTable' = routingTable
                 /\ ~panicked']_vars

\* C22 case: a packet whose payload length is no multiple of 4 was refused, and
\* the LSDB holds what it held before
C22_Witness ==
    /\ lsaParse = "invalid payload length for LSA packet"
    /\ ~panicked
    /\ DOMAIN lsdb = {localAddr, "n2"}

----------------------------------------------------------------------------
\* Properties of the checksum (checked under SpecChecksum)

\* C23: for every packet P (any header field values and any payload length, odd
\* lengths included), VerifyChecksum(P) is true after SetChecksum(P).
C23_SetThenVerify ==
    /\ checksumSet => calculateChecksum(packet) = <<255, 255>>
    /\ (checksumSet /\ verifyRet # <<>>) => verifyRet = <<TRUE>>

\* C23 case: the short packet of the tests with a payload of odd length has the
\* checksum set and was verified
C23_Witness ==
    /\ checksumSet
    /\ verifyRet = <<TRUE>>
    /\ packet.Header.SourceAddr = <<18, 52, 86, 120>>
    /\ packet.Header.DestAddr = <<154, 188, 222, 240>>
    /\ Len(packet.Payload) = 3
    /\ packet.Payload[3] = 255

----------------------------------------------------------------------------
\* Properties of highestAckedContiguousPktNum (checked under SpecAcked, SpecOut and SpecWide)

\* C24: highestAckedContiguousPktNum of a destination reaches a value n only if an
\* ACK has been received for every packet number 0..n handed out for the destination;
\* it never advances past a packet number that is still unacknowledged.
C24_HighestOnlyAcked ==
    \A a \in DOMAIN highestAckedContiguousPktNum :
        \A k \in 0 .. highestAckedContiguousPktNum[a] : <<a, k>> \in acked

\* C24 case: the packets 0 and 1 were sent and an ACK arrived for each; the highest
\* acknowledged number is 1
C24_Witness ==
    \E a \in DOMAIN highestAckedContiguousPktNum :
        /\ highestAckedContiguousPktNum[a] = 1
        /\ packetNumbers[a] = 2
        /\ <<a, 0>> \in acked
        /\ <<a, 1>> \in acked

\* C25: for every destination, in every reachable state (after any interleaving of
\* packet-number allocation, AddOpenAck, ACKs, timer expiries and ClearPacketNumbers),
\* highestAckedContiguousPktNum is strictly less than the next packet number.
C25_HighestBelowNext ==
    \A a \in DOMAIN highestAckedContiguousPktNum :
        highestAckedContiguousPktNum[a] < Get(packetNumbers, a, 0)

\* C25 case: three packets were handed out, two of them were acknowledged
C25_Witness ==
    \E a \in DOMAIN highestAckedContiguousPktNum :
        /\ highestAckedContiguousPktNum[a] = 1
        /\ Get(packetNumbers, a, 0) = 3
        /\ 2 \in DOMAIN Get(openAcks, a, EmptyMap)

----------------------------------------------------------------------------
\* Properties of the cleanup beside other goroutines (checked under SpecAtomic)

\* C27: the state of the hosts that became unreachable is cleared atomically with the
\* routing change: between the routing-table update and the end of the cleanup no
\* other handler or sender uses or creates state of such a host, so that no state of
\* them is left when the cleanup ends.
C27_ClearedAtomically ==
    /\ during = {}
    /\ clearing.done => \A u \in clearing.hosts : NoStateOf(u)

\* C27 case: the cleanup after the disconnect from n2 has ended for n2 and n3, which
\* had kept state of every kind, and no other goroutine has run in between
C27_Witness ==
    /\ clearing.done /\ clearing.hosts = {"n2", "n3"}
    /\ during = {}
    /\ \A u \in clearing.hosts : NoStateOf(u)
    /\ "n2" \notin DOMAIN neighborTable

----------------------------------------------------------------------------
\* Properties of the local LSA (checked under SpecLocal)

\* C28: after every AddNeighbor and RemoveNeighbor, and after a received LSA has been
\* processed, the neighbor list of the LSDB entry of the local address is the key set
\* of the neighbor table.
C28_LocalLSAListsNeighbors ==
    (routerRet.op # "none" /\ ~panicked) =>
        Get(lsdb, localAddr, ZeroLSA).Neighbors = DOMAIN neighborTable

\* C28 case: the LSA of n2 has been processed while n2 is a neighbor, and the local
\* LSA lists exactly n2
C28_Witness ==
    /\ routerRet.op = "UpdateLSA" /\ ~panicked
    /\ "n2" \in DOMAIN lsdb
    /\ DOMAIN neighborTable = {"n2"}
    /\ localAddr \in DOMAIN lsdb
    /\ lsdb[localAddr].Neighbors = {"n2"}

\* C29: every AddNeighbor or RemoveNeighbor that changes the neighbor table produces
\* a local LSA whose sequence number is strictly greater than the sequence number of
\* every local LSA this host produced before.
C29_LocalSeqNumIncreases ==
    [][(neighborTable' # neighborTable /\ Len(produced') > Len(produced)) =>
            \A i \in 1 .. Len(produced) : produced'[Len(produced')] > produced[i]]_vars

\* C29 case: the neighbor was added and removed, the local LSAs 0 and 1 were produced
C29_Witness ==
    /\ routerRet.op = "RemoveNeighbor" /\ ~panicked
    /\ produced = <<0, 1>>
    /\ localAddr \in DOMAIN lsdb
    /\ lsdb[localAddr].SeqNum = 1

----------------------------------------------------------------------------
\* Properties of the state of the incoming tracker (checked under SpecIn)

\* C30: for every source, the highest contiguous packet number is the largest n such
\* that all of 0..n have been received, every stored future packet number is strictly
\* greater than it plus one, and the largest stored future number is at most the
\* receiver window above it.
C30_HighestAndFuture ==
    \A peerAddr \in InPeers :
        LET highest == Get(highestPktNum, peerAddr, -1)
            future == Get(futurePktNums, peerAddr, {})
            got == Get(arrived, peerAddr, {})
        IN /\ \A k \in 0 .. highest : k \in got
           /\ highest + 1 \notin got
           /\ \A f \in future : f > highest + 1
           /\ \A f \in future : f - highest <= RECEIVE_BUFFER_SIZE

\* C30 case: packet numbers have advanced the highest contiguous number over stored
\* future numbers, and a future number is stored at the edge of the window
C30_Witness ==
    \E peerAddr \in InPeers :
        /\ peerAddr \in DOMAIN highestPktNum
        /\ highestPktNum[peerAddr] = 1
        /\ peerAddr \in DOMAIN futurePktNums
        /\ futurePktNums[peerAddr] = {3, 1 + RECEIVE_BUFFER_SIZE}


----------------------------------------------------------------------------
\* The order of the mutexes (checked under SpecLock)

LockRank == [router |-> 1, out |-> 2, in |-> 3, recon |-> 4]

\* C31: a task that holds several of the locks took them in the order router,
\* outgoing tracker, incoming tracker, reconstructor: it never takes an earlier lock
\* of this order while it holds a later one.
C31_LockOrder ==
    \A t \in Tasks : \A i, j \in 1 .. Len(holds[t]) :
        i < j => LockRank[holds[t][i]] < LockRank[holds[t][j]]

\* C31 case: clearUnreachableHosts holds the router lock and the lock of the outgoing
\* tracker, taken in this order
C31_Witness ==
    /\ holds["handler"] = <<"router", "out">>
    /\ task["handler"].at = "clear"

\* C32: no lock of the router or of a tracker is held while a datagram is written to
\* the socket, the retransmissions of the ACK-timeout callbacks included.
C32_NoLockAcrossWrite ==
    wrote.by # "none" => wrote.holding \cap {"router", "out", "in"} = {}

\* C32 case: the first transmission of a packet is written with no lock held
C32_Witness ==
    /\ wrote.by = "cmd"
    /\ wrote.holding = {}
    /\ ret = "nil"

\* the tasks of S wait, each for a mutex that a task of S holds
WaitInCycle(S) ==
    /\ S # {}
    /\ \A t \in S : WaitsFor(t) # "none" /\ Holders(WaitsFor(t)) \cap S # {}

\* C33: no interleaving of packet handlers, command-driven sends and ACK-timeout
\* callbacks deadlocks on the locks of the router, the trackers and the reconstructor.
C33_NoDeadlock == \A S \in SUBSET Tasks : ~WaitInCycle(S)

\* C33 case: a cleanup and an ACK-timeout callback have run side by side and both
\* have returned
C33_Witness ==
    /\ \A t \in Tasks : task[t] = Idle /\ holds[t] = <<>>
    /\ routerRet = NoRouterRet
    /\ "n2" \notin DOMAIN lsdb /\ lsdb # EmptyMap
    /\ \E a \in DOMAIN expiries : \E k \in DOMAIN expiries[a] : expiries[a][k] > 0


----------------------------------------------------------------------------
\* Timer callbacks and the open ack they were started for (checked under SpecOut)

\* the callback of (a, k) that runs in this step was started by the timer of an open
\* ack that has been removed since: the open ack now under the key has its own timer
\* still running, so no callback of its own
StaleCallbackRuns(a, k) ==
    /\ CallbackCount(a, k) > 0
    /\ callbacks' = SetCallbackCount(a, k, CallbackCount(a, k) - 1)
    /\ (k \in DOMAIN Get(openAcks, a, EmptyMap) => openAcks[a][k].timer = "armed")

\* C40: a timer callback acts only on the open ack it was scheduled for: when that
\* open ack was removed before the callback got the lock, the callback changes no
\* retry counter, cwnd or ssthresh and resends nothing, also when a new open ack has
\* been registered under the same (addr, pktNum) since.
C40_StaleCallbackIdle ==
    [][\A a \in OutAddrs, k \in PktNums :
            StaleCallbackRuns(a, k) =>
                /\ openAcks' = openAcks
                /\ cwnd' = cwnd
                /\ ssthresh' = ssthresh
                /\ expiries' = expiries]_vars

\* C40 case: the callback of an acknowledged packet is still waiting for the lock and
\* no open ack is registered under its key
C40_Witness ==
    \E a \in OutAddrs, k \in PktNums :
        /\ CallbackCount(a, k) > 0
        /\ k \notin DOMAIN Get(openAcks, a, EmptyMap)
        /\ a \in DOMAIN highestAckedContiguousPktNum
        /\ highestAckedContiguousPktNum[a] >= k

----------------------------------------------------------------------------
\* ACKs of MSG and FILE packets and the reconstructors (checked under SpecReceive)

\* the payload of packet pktNum from srcAddr is in a reconstructor of srcAddr
PayloadStored(srcAddr, pktNum) ==
    \/ pktNum \in DOMAIN Get(bufferedPayloads, srcAddr, EmptyMap)
    \/ pktNum \in Get(fileHandled, srcAddr, {})

\* C39: an ACK for a MSG or FILE packet number is sent only after the payload of that
\* packet has been stored in the reconstructor of the source.
C39_AckAfterStore ==
    \A p \in ackSent : PayloadStored(p[1], p[2])

\* C39 case: FILE packet 0 of n3 was stored and then acknowledged by its handler
C39_Witness ==
    /\ <<"n3", 0>> \in ackSent
    /\ 0 \in Get(fileHandled, "n3", {})
    /\ receiving = {}

----------------------------------------------------------------------------
\* Properties of the send loops (checked under SpecStream)

\* C37: every message or file send loop that acquired the sequence blocker eventually
\* returns (its deferred Unblock releases the blocker), also when a chunk cannot be
\* sent or is never acknowledged.
C37_SendLoopEnds == \A id \in StreamIds : (id \in DOMAIN loop) ~> (id \notin DOMAIN loop)

----------------------------------------------------------------------------
\* Properties of the flooding of one LSA version (checked under SpecReflood)

\* C36: a host re-floods a given (owner, sequence number) at most once; every further
\* copy of the version is acknowledged and dropped without being flooded again.
C36_RefloodOnce == \A v \in DOMAIN refloods : refloods[v] <= 1

----------------------------------------------------------------------------
\* Properties of the CONN handshake (checked under SpecConn)

\* C38: add_neighbor is never invoked for an address that is already in the neighbor
\* table, whatever the interleaving of the CONN packets and CONN acknowledgements of
\* one peer: the neighbor-added-twice assertion never fails.
C38_NoNeighborTwice == ~(panicked /\ routerRet.op = "AddNeighbor")

\* C35: a host whose CONN the responder has acknowledged (so that the handshake
\* completes on the initiator's side) is in the responder's neighbor table once the
\* handler has run, until it is removed again: no CONN is acknowledged to a host that
\* is not and does not become a neighbor.
C35_AckedIsNeighbor ==
    \A s \in connAcked :
        \/ s \in DOMAIN neighborTable
        \/ \E g \in connecting : g.srcAddr = s
        \/ panicked

----------------------------------------------------------------------------
\* Properties of the LSDB synchronisation (checked under SpecSync)

\* the LSDB entry of owner in the LSDB l, if any
EntryOf(l, owner) == IF owner \in DOMAIN l THEN l[owner] ELSE LSAEntry(-1, {})

\* the local host and n2 hold the same LSA of every host of their component
SameLSDB == \A o \in {"n1", "n2", "n4"} : EntryOf(lsdb, o) = EntryOf(peerLsdb, o)

\* C34: once neighbor changes stop and every reliable send is acknowledged, all hosts
\* of a connected component eventually hold identical LSDB entries (owner, sequence
\* number, neighbor list) for every host of the component.
C34_LSDBsConverge == <>[](peerLinked /\ ~panicked => SameLSDB)

============================================================================
